---- MODULE Spec2Model ----
(***************************************************************************)
(* layman: the concurrency pipeline (event listener, command endpoint,     *)
(* dispatch loop) and the per-workspace orchestrator of src/layman.        *)
(*                                                                         *)
(* The compositor (sway/i3) is the environment: it owns the window tree,   *)
(* changes it at any time and pushes one event per change.  The dispatch   *)
(* loop is the single consumer of the shared queue; every handler works on *)
(* a tree snapshot fetched when the handler runs.                          *)
(***************************************************************************)
EXTENDS Integers, Sequences, FiniteSets, TLC

\* ---------------------------------------------------------------- bounds
MaxWin == 2
MaxMsgs == 2

Windows == 1..MaxWin
Workspaces == {"a", "b"}
NoWs == "-"
NoWin == 0
Tickets == 1..MaxMsgs

\* ------------------------------------------------------------ vocabulary
NativeLayouts == {"splitv", "splith", "tabbed", "stacking"}
builtinLayouts == {"none", "MasterStack"}
RuleActions == {"none", "exclude", "floating", "workspace"}

NoMgr == [kind |-> "-", inst |-> 0, lastFocusedWindowId |-> NoWin, maximized |-> FALSE]

\* replies are sequences of lines, a line a sequence of words
TimeoutReply == << <<"Error: Command timed out or failed.">> >>
FailedReply == << <<"Error: Command execution failed.">> >>

VARIABLES
    win,              \* compositor tree: window -> [ws, floating]
    focused,          \* compositor tree: the focused window, or NoWin
    treeWs,           \* compositor tree: the workspaces that exist
    options,          \* LaymanConfig: excluded workspaces, default layout, rules
    mainPc,           \* main thread: "boot", "init", "loop", "handling", "dead"
    bootTree,         \* the tree snapshot Layman.run takes before the threads start
    listenerArmed,    \* the ListenerThread is subscribed
    queue,            \* notificationQueue (SimpleQueue)
    enqCount,         \* messages put on the queue so far
    started,          \* messages whose handler has started so far
    current,          \* the message the dispatch loop is handling
    workspaceStates,  \* Layman.workspaceStates
    nextInst,         \* layout-manager instances constructed so far
    calls,            \* layout-manager calls made by the last handler
    ipc,              \* compositor commands issued by the last handler
    handled,          \* handleCommand calls of the last handler: segment, result
    outcome,          \* how the last handler ended: exception that left it, or "ok"
    escaped,          \* some exception has left an orchestrator handler
    crash,            \* the exception that ended the dispatch loop, or "none"
    serverPc,         \* MessageServer.run: "accept" or "wait"
    waitSlot,         \* the reply slot the server is blocked on
    slots,            \* the values put on each command's response_queue, by ticket
    sent,             \* what the endpoint wrote back to each client
    timedOut,         \* the clients whose wait ended in a timeout
    msOptions,        \* the configuration a MasterStack manager is built from
    msTree,           \* the workspace container a MasterStack manager is handed
    mgr,              \* one MasterStackLayoutManager instance
    msLast,           \* the last call made on mgr: its arguments, commands, result
    msSub,            \* the windows the compositor holds inside a substack container
    msLeft,           \* calls still to be made on mgr
    history,          \* one FocusHistory object
    fhLast,           \* the last call made on history: its argument and result
    fhLeft            \* calls still to be made on history

treeVars == <<win, focused, treeWs>>
orchVars == <<workspaceStates, nextInst>>
logVars == <<calls, ipc, handled, outcome, escaped, crash>>
serverVars == <<serverPc, waitSlot, slots, sent, timedOut>>
msVars == <<msOptions, msTree, mgr, msLast, msSub, msLeft>>
fhVars == <<history, fhLast, fhLeft>>
vars == <<win, focused, treeWs, options, mainPc, bootTree, listenerArmed,
          queue, enqCount, started, current, workspaceStates, nextInst,
          calls, ipc, handled, outcome, escaped, crash, serverPc, waitSlot, slots,
          sent, timedOut,
          msOptions, msTree, mgr, msLast, msSub, msLeft,
          history, fhLast, fhLeft>>

\* ------------------------------------------------------------ tree reads
Snapshot == [win |-> win, focused |-> focused, treeWs |-> treeWs]

\* Con.workspace() of the window found by tree.find_by_id, or NoWs
WorkspaceOf(T, w) == IF w = NoWin THEN NoWs ELSE T.win[w].ws

\* workspace.leaves() chained with workspace.floating_nodes
AllLeaves(T, ws) == {w \in Windows : T.win[w].ws = ws}
TiledLeaves(T, ws) == {w \in Windows : T.win[w].ws = ws /\ ~T.win[w].floating}

\* workspace.find_focused()
FindFocused(T, ws) ==
    IF T.focused # NoWin /\ T.win[T.focused].ws = ws THEN T.focused ELSE NoWin

\* utils.findFocusedWorkspace(conn)
findFocusedWorkspace(T) == WorkspaceOf(T, T.focused)

\* ------------------------------------------------------- sequence helpers
RECURSIVE SeqRemove(_, _)
SeqRemove(s, x) ==
    IF s = <<>> THEN <<>>
    ELSE IF Head(s) = x THEN Tail(s)
    ELSE <<Head(s)>> \o SeqRemove(Tail(s), x)

SeqElems(s) == {s[i] : i \in 1..Len(s)}

TheOne(S) == CHOOSE x \in S : TRUE

\* ----------------------------------------------------------- FocusHistory
max_size == 20

NewFocusHistory == [entries |-> <<>>, idx |-> 0]

\* FocusHistory.push
FHpush(h, w) ==
    IF h.entries # <<>> /\ Head(h.entries) = w THEN h
    ELSE LET without == IF w \in SeqElems(h.entries)
                        THEN SeqRemove(h.entries, w) ELSE h.entries
             pushed == <<w>> \o without
         IN [entries |-> IF Len(pushed) > max_size
                         THEN SubSeq(pushed, 1, max_size) ELSE pushed,
             idx |-> 0]

\* FocusHistory.remove
FHremove(h, w) ==
    IF w \in SeqElems(h.entries)
    THEN LET e == SeqRemove(h.entries, w)
         IN [entries |-> e,
             idx |-> IF h.idx >= Len(e)
                     THEN (IF Len(e) - 1 > 0 THEN Len(e) - 1 ELSE 0)
                     ELSE h.idx]
    ELSE h

\* FocusHistory.previous: the history after the call and the returned ID
FHprevious(h) ==
    IF h.idx + 1 >= Len(h.entries) THEN [h |-> h, id |-> NoWin]
    ELSE [h |-> [h EXCEPT !.idx = @ + 1], id |-> h.entries[h.idx + 2]]

\* --------------------------------------------------------- WorkspaceState
NewWorkspaceState ==
    [exists |-> TRUE,
     layoutManager |-> NoMgr,
     layoutName |-> "none",
     windowIds |-> {},
     isExcluded |-> FALSE,
     focusHistory |-> NewFocusHistory,
     fakeFullscreen |-> FALSE,
     fakeFullscreenWindowId |-> NoWin,
     savedStackLayout |-> "-",
     ord |-> 0]

NoState == [NewWorkspaceState EXCEPT !.exists = FALSE]

\* ------------------------------------------------- layout-manager contract
\* capability flags of the registered classes
overridesMoveBinds(kind) == kind = "MasterStack"
overridesFocusBinds(kind) == kind = "MasterStack"
supportsFloating(kind) == kind = "MasterStack"

\* the base class has empty methods; an algorithm may fail in any call
CanRaise(kind) == kind # "none"

\* MasterStackLayoutManager.isFloating
isFloating(T, w) == T.win[w].ws # NoWs /\ T.win[w].floating

\* a freshly constructed instance
NewManager(kind, inst) ==
    [kind |-> kind, inst |-> inst, lastFocusedWindowId |-> NoWin, maximized |-> FALSE]

\* the effect of a contract method on the instance
MethodEffect(m, op, T, w) ==
    IF m.kind = "MasterStack" /\ op = "windowFocused" /\ ~isFloating(T, w)
    THEN [m EXCEPT !.lastFocusedWindowId = w]
    ELSE m

\* ------------------------------------------------ handler execution context
\* A handler is evaluated as a function of the orchestrator state, the tree
\* snapshot and an oracle saying which layout-manager calls fail.
OracleLen == 2
Oracles == [1..OracleLen -> BOOLEAN]

NewCtx(st, inst, orc) ==
    [st |-> st, inst |-> inst, calls |-> <<>>, ipc |-> <<>>,
     exc |-> "none", orc |-> orc, k |-> 1, res |-> <<>>, note |-> "-",
     handled |-> <<>>]

Fails(ctx) == ctx.k <= OracleLen /\ ctx.orc[ctx.k]
Raise(ctx, e) == [ctx EXCEPT !.exc = e]
Ok(ctx) == ctx.exc = "none"

\* a compositor command: the [con_id=..] criterion (NoWin when absent) and its words
Cmd(con, words) == [con |-> con, words |-> words]

\* Layman.command
command(ctx, c) == [ctx EXCEPT !.ipc = Append(@, c)]

\* Layman.setWorkspaceLayoutCommand
setWorkspaceLayoutCommand(ctx, ws) ==
    LET state == ctx.st[ws]
    IN IF Cardinality(state.windowIds) # 1 THEN ctx
       ELSE IF state.layoutManager = NoMgr
            THEN command(command(ctx, Cmd(TheOne(state.windowIds), <<"split", "none">>)),
                         Cmd(TheOne(state.windowIds), <<"layout", state.layoutName>>))
            ELSE ctx

\* a workspace container as a handler holds it: absent, or its leaves
\* (workspace.leaves() and workspace.floating_nodes) and its focused leaf
NoCon == [present |-> FALSE, tiled |-> {}, floating |-> {}, focus |-> NoWin]
ConOf(T, ws) ==
    IF ws \in T.treeWs
    THEN [present |-> TRUE, tiled |-> TiledLeaves(T, ws),
          floating |-> AllLeaves(T, ws) \ TiledLeaves(T, ws),
          focus |-> FindFocused(T, ws)]
    ELSE NoCon

\* fault injection: setWorkspaceLayout without the isExcluded return
setWorkspaceLayout_IgnoresExcluded(ctx, con, ws, layoutName) ==
    LET state == ctx.st[ws]
        name == IF layoutName = "" THEN state.layoutName ELSE layoutName
        c1 == [ctx EXCEPT !.st[ws].layoutName = name]
    IN IF ~state.exists THEN Raise(ctx, "KeyError")
       ELSE IF name \in NativeLayouts
            THEN LET c2 == [c1 EXCEPT !.st[ws].layoutManager = NoMgr]
                 IN IF con.present THEN setWorkspaceLayoutCommand(c2, ws) ELSE c2
       ELSE IF name \in builtinLayouts
            THEN LET call == [ws |-> ws, op |-> "__init__", kind |-> name,
                              inst |-> c1.inst + 1, w |-> NoWin, con |-> con,
                              ids |-> c1.st[ws].windowIds]
                     c2 == [c1 EXCEPT !.calls = Append(@, call), !.k = @ + 1,
                                      !.inst = @ + 1]
                 IN IF CanRaise(name) /\ Fails(c1)
                    THEN Raise(c2, "AlgorithmFailure")
                    ELSE [c2 EXCEPT !.st[ws].layoutManager = NewManager(name, c1.inst + 1)]
       ELSE Raise(c1, "ConfigError")

\* Layman.setWorkspaceLayout; layoutName "" is the omitted argument
setWorkspaceLayout(ctx, con, ws, layoutName) ==
    LET state == ctx.st[ws]
        name == IF layoutName = "" THEN state.layoutName ELSE layoutName
        c1 == [ctx EXCEPT !.st[ws].layoutName = name]
    IN IF ~state.exists THEN Raise(ctx, "KeyError")
       ELSE IF state.isExcluded THEN c1
       ELSE IF name \in NativeLayouts
            THEN LET c2 == [c1 EXCEPT !.st[ws].layoutManager = NoMgr]
                 IN IF con.present THEN setWorkspaceLayoutCommand(c2, ws) ELSE c2
       ELSE IF name \in builtinLayouts
            THEN LET call == [ws |-> ws, op |-> "__init__", kind |-> name,
                              inst |-> c1.inst + 1, w |-> NoWin, con |-> con,
                              ids |-> c1.st[ws].windowIds]
                     c2 == [c1 EXCEPT !.calls = Append(@, call), !.k = @ + 1,
                                      !.inst = @ + 1]
                 IN IF CanRaise(name) /\ Fails(c1)
                    THEN Raise(c2, "AlgorithmFailure")
                    ELSE [c2 EXCEPT !.st[ws].layoutManager = NewManager(name, c1.inst + 1)]
       ELSE Raise(c1, "ConfigError")

\* a layout-manager method called inside `with layoutManagerReloader(...)`
GuardedCall(ctx, ws, op, w, T) ==
    LET m == ctx.st[ws].layoutManager
        call == [ws |-> ws, op |-> op, kind |-> m.kind, inst |-> m.inst,
                 w |-> w, con |-> NoCon, ids |-> ctx.st[ws].windowIds]
        c1 == [ctx EXCEPT !.calls = Append(@, call), !.k = @ + 1,
                          !.st[ws].layoutManager = MethodEffect(m, op, T, w)]
    IN IF CanRaise(m.kind) /\ Fails(ctx)
       THEN \* layoutManagerReloader: except BaseException
            setWorkspaceLayout([c1 EXCEPT !.calls =
                                   Append(@, [call EXCEPT !.op = "reload"])],
                               ConOf(T, ws), ws, "")
       ELSE c1

\* Layman.handleWindowAdded
handleWindowAdded(ctx, ws, w, T) ==
    LET state == ctx.st[ws]
    IN IF ~Ok(ctx) THEN ctx
       ELSE IF ~state.exists THEN Raise(ctx, "KeyError")
       ELSE IF state.isExcluded THEN ctx
       ELSE IF state.layoutManager # NoMgr
            THEN GuardedCall(ctx, ws, "windowAdded", w, T)
            ELSE setWorkspaceLayoutCommand(ctx, ws)

\* Layman.handleWindowRemoved
handleWindowRemoved(ctx, ws, w, T) ==
    LET state == ctx.st[ws]
    IN IF ~Ok(ctx) THEN ctx
       ELSE IF ~state.exists THEN Raise(ctx, "KeyError")
       ELSE IF state.isExcluded THEN ctx
       ELSE IF state.layoutManager # NoMgr
            THEN GuardedCall(ctx, ws, "windowRemoved", w, T)
            ELSE IF ws \in T.treeWs THEN setWorkspaceLayoutCommand(ctx, ws) ELSE ctx

\* ---------------------------------------------------------- window events
\* the workspaceStates entry that records window w, first in dict order
StateOf(st, w) ==
    LET having == {n \in Workspaces : st[n].exists /\ w \in st[n].windowIds}
    IN IF having = {} THEN NoWs
       ELSE CHOOSE n \in having : \A o \in having : st[n].ord <= st[o].ord

\* WindowRuleEngine.evaluate: the action the configured rules give the window
ruleEngine(T, w) == T.win[w].rule

\* fault injection: windowCreated that sends a command for a window it did
\* not find
windowCreated_ActsOnMissing(ctx, T, ws, w, opts) ==
    IF ws = NoWs THEN command(ctx, Cmd(NoWin, <<"split", "none">>))
    ELSE IF ~ctx.st[ws].exists THEN Raise(ctx, "KeyError")
    ELSE handleWindowAdded([ctx EXCEPT !.st[ws].windowIds = @ \cup {w}], ws, w, T)

\* fault injection: windowCreated that calls the manager before recording the id
windowCreated_NotifyFirst(ctx, T, ws, w, opts) ==
    IF ws = NoWs THEN [ctx EXCEPT !.note = "no window"]
    ELSE IF ~ctx.st[ws].exists THEN Raise(ctx, "KeyError")
    ELSE LET c1 == handleWindowAdded(ctx, ws, w, T)
         IN [c1 EXCEPT !.st[ws].windowIds = @ \cup {w}]

\* Layman.windowCreated; ws and w are what run() found in the fresh tree
windowCreated(ctx, T, ws, w, opts) ==
    IF ws = NoWs THEN [ctx EXCEPT !.note = "no window"]
    ELSE IF ~ctx.st[ws].exists THEN Raise(ctx, "KeyError")
    ELSE LET c1 == [ctx EXCEPT !.st[ws].windowIds = @ \cup {w}]
         IN IF ruleEngine(T, w) = "exclude"
            THEN [c1 EXCEPT !.st[ws].windowIds = @ \ {w}]
            ELSE IF ruleEngine(T, w) = "floating"
            THEN command(c1, Cmd(w, <<"floating", "enable">>))
            ELSE IF ruleEngine(T, w) = "workspace"
            THEN command(c1, Cmd(w, <<"move", "container", "to", "workspace">>))
            ELSE handleWindowAdded(c1, ws, w, T)

\* fault injection: windowFocused that records the focus before the stale check
windowFocused_PushFirst(ctx, T, ws, w, id) ==
    IF ws = NoWs THEN ctx
    ELSE IF ~ctx.st[ws].exists THEN Raise(ctx, "KeyError")
    ELSE IF ctx.st[ws].isExcluded THEN ctx
    ELSE LET c1 == [ctx EXCEPT !.st[ws].focusHistory = FHpush(@, id)]
         IN IF FindFocused(T, ws) = NoWin \/ id # FindFocused(T, ws)
            THEN [c1 EXCEPT !.note = "stale"]
            ELSE IF c1.st[ws].layoutManager # NoMgr
            THEN GuardedCall(c1, ws, "windowFocused", w, T)
            ELSE c1

\* Layman.windowFocused; id is event.container.id
windowFocused(ctx, T, ws, w, id) ==
    IF ws = NoWs THEN ctx
    ELSE IF ~ctx.st[ws].exists THEN Raise(ctx, "KeyError")
    ELSE IF ctx.st[ws].isExcluded THEN ctx
    ELSE IF FindFocused(T, ws) = NoWin \/ id # FindFocused(T, ws)
         THEN [ctx EXCEPT !.note = "stale"]
    ELSE LET c1 == [ctx EXCEPT !.st[ws].focusHistory = FHpush(@, w)]
         IN IF c1.st[ws].layoutManager # NoMgr
            THEN GuardedCall(c1, ws, "windowFocused", w, T)
            ELSE c1

\* fault injection: windowClosed that leaves the id in windowIds
windowClosed_KeepsId(ctx, T, id) ==
    LET n == StateOf(ctx.st, id)
    IN IF n = NoWs THEN ctx
       ELSE handleWindowRemoved(
              [ctx EXCEPT !.st[n].focusHistory = FHremove(@, id)], n, id, T)

\* Layman.windowClosed
windowClosed(ctx, T, id) ==
    LET n == StateOf(ctx.st, id)
    IN IF n = NoWs THEN ctx
       ELSE LET s0 == ctx.st[n]
                s1 == [s0 EXCEPT !.windowIds = @ \ {id},
                                 !.focusHistory = FHremove(@, id)]
                s2 == IF s1.fakeFullscreen /\ s1.fakeFullscreenWindowId = id
                      THEN [s1 EXCEPT !.fakeFullscreen = FALSE,
                                      !.fakeFullscreenWindowId = NoWin,
                                      !.savedStackLayout = "-"]
                      ELSE s1
            IN handleWindowRemoved([ctx EXCEPT !.st[n] = s2], n, id, T)

\* Layman.windowMoved
windowMoved(ctx, T, to, w) ==
    IF to = NoWs THEN [ctx EXCEPT !.note = "no window"]
    ELSE IF ~ctx.st[to].exists THEN Raise(ctx, "KeyError")
    ELSE LET from == StateOf(ctx.st, w)
         IN IF from = NoWs \/ from \notin T.treeWs THEN Raise(ctx, "StopIteration")
            ELSE IF from = to
            THEN IF ctx.st[from].layoutManager # NoMgr
                 THEN GuardedCall(ctx, from, "windowMoved", w, T)
                 ELSE ctx
            ELSE LET c1 == [ctx EXCEPT !.st[from].windowIds = @ \ {w}]
                     c2 == handleWindowRemoved(c1, from, w, T)
                 IN IF ~Ok(c2) THEN c2
                    ELSE handleWindowAdded(
                           [c2 EXCEPT !.st[to].windowIds = @ \cup {w}], to, w, T)

\* fault injection: windowFloating that asks for no capability
windowFloating_AnyManager(ctx, T, ws, w) ==
    IF ws = NoWs THEN [ctx EXCEPT !.note = "no window"]
    ELSE IF ~ctx.st[ws].exists THEN Raise(ctx, "KeyError")
    ELSE IF ctx.st[ws].isExcluded THEN ctx
    ELSE IF ctx.st[ws].layoutManager # NoMgr
         THEN GuardedCall(ctx, ws, "windowFloating", w, T)
    ELSE IF T.win[w].floating
         THEN handleWindowRemoved(ctx, ws, w, T)
         ELSE handleWindowAdded(ctx, ws, w, T)

\* Layman.windowFloating
windowFloating(ctx, T, ws, w) ==
    IF ws = NoWs THEN [ctx EXCEPT !.note = "no window"]
    ELSE IF ~ctx.st[ws].exists THEN Raise(ctx, "KeyError")
    ELSE IF ctx.st[ws].isExcluded THEN ctx
    ELSE IF ctx.st[ws].layoutManager # NoMgr
            /\ supportsFloating(ctx.st[ws].layoutManager.kind)
         THEN GuardedCall(ctx, ws, "windowFloating", w, T)
    ELSE IF T.win[w].floating
         THEN handleWindowRemoved(ctx, ws, w, T)
         ELSE handleWindowAdded(ctx, ws, w, T)

\* ------------------------------------------------------- workspace events
\* Layman.initWorkspace; con is the workspace container handed in
initWorkspace(ctx, ws, con, opts) ==
    IF ctx.st[ws].exists THEN ctx
    ELSE LET n == Cardinality({o \in Workspaces : ctx.st[o].exists})
             state == [NewWorkspaceState EXCEPT
                          !.isExcluded = ws \in opts.excluded,
                          !.windowIds = con.tiled \cup con.floating,
                          !.ord = n + 1]
             c1 == [ctx EXCEPT !.st[ws] = state]
         IN IF ~state.isExcluded
            THEN setWorkspaceLayout(c1, con, ws, opts.layout)
            ELSE c1

\* ------------------------------------------------------ commands, bindings
\* A command text is a sequence of ';'-separated segments, a segment a
\* sequence of words.
StartsWith(seg, word) == Len(seg) >= 1 /\ seg[1] = word
HasMarker(seg) == Len(seg) >= 2 /\ seg[1] = "nop" /\ seg[2] = "layman"

\* PresetManager.load: the stored presets, each named after its layout
PresetStore == {"MasterStack"}

Result(ctx, r) == [ctx EXCEPT !.res = Append(@, r)]

\* state.layoutManager.onCommand inside the guard, then the handler's reply
ManagerCommand(ctx, ws, T, reply) ==
    IF ctx.st[ws].layoutManager # NoMgr
    THEN LET c1 == GuardedCall(ctx, ws, "onCommand", NoWin, T)
         IN IF Ok(c1) /\ reply
            THEN Result(c1, <<"Processed by", c1.st[ws].layoutManager.kind>>)
            ELSE c1
    ELSE IF reply THEN Result(ctx, <<"No manager for workspace", ws>>) ELSE ctx

\* list(state.windowIds)[0]: the set is iterated in hash order, for small
\* integers the smallest first
FirstId(ids) == CHOOSE w \in ids : \A o \in ids : w <= o

\* the layout of the focused window's parent container, which the trees of
\* this model leave at the compositor's default
ParentLayout == "splith"

ResultIfOk(ctx, r) == IF Ok(ctx) THEN Result(ctx, r) ELSE ctx

\* state.layoutManager.onCommand("maximize", workspace) inside the guard:
\* toggleMaximize ends with self.maximized = not self.maximized, which a call
\* that raises has not reached
MaximizeCall(ctx, ws, T) ==
    IF ctx.st[ws].layoutManager.kind = "MasterStack" /\ ~Fails(ctx)
    THEN [GuardedCall(ctx, ws, "onCommand", NoWin, T)
             EXCEPT !.st[ws].layoutManager.maximized = ~@]
    ELSE GuardedCall(ctx, ws, "onCommand", NoWin, T)

\* toggleFakeFullscreen: the workspace leaves fake fullscreen
ExitFakeFullscreen(ctx, ws, T) ==
    IF ctx.st[ws].layoutManager # NoMgr
    THEN MaximizeCall(ctx, ws, T)
    ELSE IF ctx.st[ws].savedStackLayout # "-"
    THEN [(IF ctx.st[ws].windowIds # {}
           THEN command(ctx, Cmd(FirstId(ctx.st[ws].windowIds),
                                 <<"layout", ctx.st[ws].savedStackLayout>>))
           ELSE ctx)
          EXCEPT !.st[ws].savedStackLayout = "-"]
    ELSE ctx

\* toggleFakeFullscreen: state.fakeFullscreen = True, reached when the manager
\* call or the commands before it have not raised
MarkFakeFullscreen(ctx, ws) ==
    IF Ok(ctx) THEN [ctx EXCEPT !.st[ws].fakeFullscreen = TRUE] ELSE ctx

\* toggleFakeFullscreen: the workspace enters fake fullscreen
EnterFakeFullscreen(ctx, ws, T) ==
    MarkFakeFullscreen(
        IF ctx.st[ws].layoutManager # NoMgr
        THEN MaximizeCall(ctx, ws, T)
        ELSE IF ctx.st[ws].windowIds # {}
        THEN command([ctx EXCEPT !.st[ws].savedStackLayout = ParentLayout],
                     Cmd(FirstId(ctx.st[ws].windowIds), <<"layout", "tabbed">>))
        ELSE ctx,
        ws)

\* Layman.toggleFakeFullscreen
toggleFakeFullscreen(ctx, ws, T) ==
    IF ctx.st[ws].fakeFullscreen
    THEN ExitFakeFullscreen([ctx EXCEPT !.st[ws].fakeFullscreen = FALSE,
                                        !.st[ws].fakeFullscreenWindowId = NoWin],
                            ws, T)
    ELSE IF T.focused = NoWin THEN ctx
    ELSE EnterFakeFullscreen([ctx EXCEPT !.st[ws].fakeFullscreenWindowId = T.focused],
                             ws, T)

PassesBind_IgnoresFlags(state, words) ==
    StartsWith(words, "move") \/ StartsWith(words, "focus")

\* bare or "window"-prefixed move/focus that the manager does not override
PassesBind(state, words) ==
    \/ /\ StartsWith(words, "move")
       /\ (state.layoutManager = NoMgr
           \/ ~overridesMoveBinds(state.layoutManager.kind))
    \/ /\ StartsWith(words, "focus")
       /\ (state.layoutManager = NoMgr
           \/ ~overridesFocusBinds(state.layoutManager.kind))

\* Layman.handleCommand
handleCommand(ctx, T, seg) ==
    LET ws == findFocusedWorkspace(T)
    IN IF ~Ok(ctx) THEN ctx
       ELSE IF seg = <<"reload">> THEN Result(ctx, <<"Reloaded config">>)
       ELSE IF StartsWith(seg, "preset")
            THEN IF Len(seg) = 3 /\ seg[2] = "load"
                 THEN IF seg[3] \in PresetStore
                      THEN IF ws # NoWs
                           THEN LET c1 == setWorkspaceLayout(ctx, ConOf(T, ws), ws, seg[3])
                                IN IF Ok(c1) THEN Result(c1, <<"Preset loaded", seg[3]>>)
                                   ELSE c1
                           ELSE Result(ctx, <<"No focused workspace for preset load">>)
                      ELSE Result(ctx, <<"Preset not found", seg[3]>>)
                 ELSE Result(ctx, <<"Unknown preset command">>)
       ELSE IF ws = NoWs
            THEN Result(command(ctx, Cmd(NoWin, seg)), <<"Passed to sway">> \o seg)
       ELSE IF ~ctx.st[ws].exists THEN Raise(ctx, "KeyError")
       ELSE IF ctx.st[ws].isExcluded
            THEN Result(command(ctx, Cmd(NoWin, seg)), <<"Passed to sway">> \o seg)
       ELSE IF StartsWith(seg, "layout")
            THEN IF Len(seg) >= 3 /\ seg[2] = "set"
                 THEN LET c1 == setWorkspaceLayout(ctx, ConOf(T, ws), ws, seg[3])
                      IN IF Ok(c1) THEN Result(c1, <<"Layout set to", seg[3]>>) ELSE c1
                 ELSE IF seg = <<"layout", "maximize">>
                 THEN ResultIfOk(toggleFakeFullscreen(ctx, ws, T), <<"Maximize toggled">>)
                 ELSE Result(ctx, <<"Unknown layout command">>)
       ELSE IF StartsWith(seg, "window")
            THEN IF Tail(seg) = <<"focus", "previous">>
                 THEN LET p == FHprevious(ctx.st[ws].focusHistory)
                          c1 == [ctx EXCEPT !.st[ws].focusHistory = p.h]
                      IN IF p.id # NoWin
                         THEN Result(command(c1, Cmd(p.id, <<"focus">>)),
                                     <<"Focus previous: window", p.id>>)
                         ELSE Result(c1, <<"No previous focus history">>)
                 ELSE IF PassesBind(ctx.st[ws], Tail(seg))
                 THEN command(ctx, Cmd(NoWin, Tail(seg)))
                 ELSE ManagerCommand(ctx, ws, T, TRUE)
       ELSE IF StartsWith(seg, "stack") \/ StartsWith(seg, "master")
            THEN ManagerCommand(ctx, ws, T, TRUE)
       ELSE IF PassesBind(ctx.st[ws], seg)
            THEN command(ctx, Cmd(NoWin, seg))
       ELSE IF seg = <<"maximize">> /\ ctx.st[ws].layoutManager # NoMgr
            THEN MaximizeCall(ctx, ws, T)
       ELSE ManagerCommand(ctx, ws, T, FALSE)

\* a handleCommand call is noted with its segment and the result it returned
Logged(before, after, seg) ==
    [after EXCEPT !.handled =
        Append(@, [seg |-> seg,
                   res |-> SubSeq(after.res, Len(before.res) + 1, Len(after.res)),
                   exc |-> after.exc])]

\* fault injection: onCommand that handles the segments right to left
RECURSIVE onCommand_RightToLeft(_, _, _)
onCommand_RightToLeft(ctx, T, text) ==
    IF text = <<>> \/ ~Ok(ctx) THEN ctx
    ELSE IF text[Len(text)] = <<>>
    THEN onCommand_RightToLeft(ctx, T, SubSeq(text, 1, Len(text) - 1))
    ELSE onCommand_RightToLeft(
           Logged(ctx, handleCommand(ctx, T, text[Len(text)]), text[Len(text)]),
           T, SubSeq(text, 1, Len(text) - 1))

\* Layman.onCommand: every non-empty segment in order
RECURSIVE onCommand(_, _, _)
onCommand(ctx, T, text) ==
    IF text = <<>> \/ ~Ok(ctx) THEN ctx
    ELSE IF Head(text) = <<>> THEN onCommand(ctx, T, Tail(text))
    ELSE onCommand(Logged(ctx, handleCommand(ctx, T, Head(text)), Head(text)),
                   T, Tail(text))

\* the loop of Layman.onBinding over the segments
RECURSIVE BindingSegments(_, _, _)
BindingSegments(ctx, T, text) ==
    IF text = <<>> \/ ~Ok(ctx) THEN ctx
    ELSE IF Head(text) = <<>> THEN BindingSegments(ctx, T, Tail(text))
    ELSE IF HasMarker(Head(text))
         THEN BindingSegments(
                Logged(ctx, handleCommand(ctx, T, SubSeq(Head(text), 3, Len(Head(text)))),
                       SubSeq(Head(text), 3, Len(Head(text)))),
                T, Tail(text))
         ELSE BindingSegments(command(ctx, Cmd(NoWin, Head(text))), T, Tail(text))

\* Layman.onBinding
onBinding(ctx, T, text) ==
    IF text # <<>> /\ HasMarker(Head(text))
    THEN BindingSegments(ctx, T, text)
    ELSE ctx

\* fault injection: the reply slot gets what was collected, failure or not
Reply_IgnoresFailure(ctx) ==
    IF ctx.res = <<>> THEN <<<<"OK">>>> ELSE ctx.res

\* the reply Layman.run puts on the response queue
Reply(ctx) ==
    IF ~Ok(ctx) THEN FailedReply
    ELSE IF ctx.res = <<>> THEN <<<<"OK">>>> ELSE ctx.res

\* ---------------------------------------------------------------- messages
NoMsg == [type |-> "-", kind |-> "-", id |-> NoWin, ws |-> NoWs,
          con |-> NoCon, text |-> <<>>, ticket |-> 0]

\* ListenerThread.handleEvent: {"type": "event", "event": event}
EventMsg(kind, id, ws, con, text) ==
    [type |-> "event", kind |-> kind, id |-> id, ws |-> ws, con |-> con,
     text |-> text, ticket |-> enqCount + 1]

\* MessageServer.run: {"type": "command", "command": ..., "response_queue": ...}
CommandMsg(text) ==
    [type |-> "command", kind |-> "-", id |-> NoWin, ws |-> NoWs, con |-> NoCon,
     text |-> text, ticket |-> enqCount + 1]

\* SimpleQueue.put on the shared queue
Put(m) ==
    /\ queue' = Append(queue, m)
    /\ enqCount' = enqCount + 1

\* the texts clients and bindings send
Segments ==
    { <<"layout", "set", "tabbed">>, <<"layout", "set", "bogus">>,
      <<"stack", "toggle">>, <<"preset", "load", "MasterStack">> }
\* move and focus commands, bare and with the "window" prefix
BindSegments ==
    { <<"move", "left">>, <<"window", "move", "left">>,
      <<"focus", "up">>, <<"window", "focus", "up">>,
      <<"window", "focus", "previous">> }
\* requests of several ';'-joined sub-commands, one with an empty segment
ChainedTexts ==
    { << <<"layout", "set", "tabbed">>, <<>>, <<"stack", "toggle">> >>,
      << <<"layout", "set", "bogus">>, <<"stack", "toggle">> >> }
ClientTexts ==
    { <<seg>> : seg \in Segments \cup BindSegments \cup {<<"layout", "maximize">>} }
    \cup ChainedTexts
\* binding commands: one marked segment, an unmarked command, a marked chain
\* with an unmarked and an empty segment, a chain whose first segment is not
\* marked, and a chain whose first segment names an unknown layout
Marked(seg) == <<"nop", "layman">> \o seg
BindingTexts ==
    { << Marked(seg) >> : seg \in Segments }
    \cup { << <<"exec", "term">> >>,
            << Marked(<<"stack", "toggle">>), <<"exec", "term">>, <<>>,
               Marked(<<"layout", "set", "tabbed">>) >>,
            << <<"exec", "term">>, Marked(<<"stack", "toggle">>) >>,
            << Marked(<<"layout", "set", "bogus">>), <<"exec", "term">> >> }

\* ============================================== MasterStackLayoutManager
\* The manager is modelled on its own: a workspace container it is handed
\* (msTree), its fields (mgr) and the commands each call sends.
MSWin == 4
MaxOps == 4

MSWindows == 1..MSWin
Widths == {0, 600}
StackLayouts == {"splitv", "splith", "stacking", "tabbed"}
Sides == {"right", "left"}

\* StackLayout.nextChoice
nextChoice(l) ==
    IF l = "splitv" THEN "splith"
    ELSE IF l = "splith" THEN "stacking"
    ELSE IF l = "stacking" THEN "tabbed"
    ELSE "splitv"

\* Side.opposite
opposite(side) == IF side = "left" THEN "right" ELSE "left"

\* python list operations on a sequence, with 0-based indices
Has(s, i) == i >= 0 - Len(s) /\ i < Len(s)
At(s, i) == s[IF i >= 0 THEN i + 1 ELSE Len(s) + i + 1]
IndexOf(s, x) ==
    IF \E k \in 1..Len(s) : s[k] = x
    THEN (CHOOSE k \in 1..Len(s) : s[k] = x /\ \A j \in 1..(k - 1) : s[j] # x) - 1
    ELSE 0 - 1
InsertAt(s, i, x) ==
    LET k == IF i > Len(s) THEN Len(s) ELSE i
    IN SubSeq(s, 1, k) \o <<x>> \o SubSeq(s, k + 1, Len(s))
SliceFrom(s, i) == SubSeq(s, i + 1, Len(s))
Reversed(s) == [k \in 1..Len(s) |-> s[Len(s) + 1 - k]]

\* workspace.find_by_id: the window is somewhere under the workspace
find_by_id(T, w) == w \in MSWindows /\ T.leaf[w] # "absent"
\* workspace.leaves(), in tree order
RECURSIVE LeavesFrom(_, _)
LeavesFrom(T, w) ==
    IF w > MSWin THEN <<>>
    ELSE (IF T.leaf[w] = "tiled" THEN <<w>> ELSE <<>>) \o LeavesFrom(T, w + 1)
leaves(T) == LeavesFrom(T, 1)
floating_nodes(T) == {w \in MSWindows : T.leaf[w] = "floating"}

\* MasterStackLayoutManager.isFloating, on the container handed to the call
msIsFloating(T, w) == w \in MSWindows /\ T.leaf[w] = "floating"

\* one call on the manager: the instance m, the commands sent, the exception
NewCall(m) == [m |-> m, cmds |-> <<>>, exc |-> "none"]
MRaise(mc, e) == IF mc.exc = "none" THEN [mc EXCEPT !.exc = e] ELSE mc
MOk(mc) == mc.exc = "none"

\* WorkspaceLayoutManager.command: one command sent to the compositor
MCmd(con, verb, arg) == [con |-> con, verb |-> verb, arg |-> arg]
managerCommand(mc, c) == IF MOk(mc) THEN [mc EXCEPT !.cmds = Append(@, c)] ELSE mc

\* MasterStackLayoutManager.moveWindowCommand
moveWindowCommand(mc, moveId, targetId) ==
    managerCommand(managerCommand(managerCommand(mc,
        MCmd(targetId, "mark --add move_target", NoWin)),
        MCmd(moveId, "move window to mark move_target", NoWin)),
        MCmd(targetId, "unmark move_target", NoWin))

RECURSIVE moveAll(_, _, _)
moveAll(mc, ids, targetId) ==
    IF ids = <<>> THEN mc
    ELSE moveAll(moveWindowCommand(mc, Head(ids), targetId), Tail(ids), targetId)

\* MasterStackLayoutManager.swapWindowsCommand
swapWindowsCommand(mc, firstWindowId, secondWindowId) ==
    managerCommand(mc, MCmd(firstWindowId, "swap container with con_id", secondWindowId))

\* MasterStackLayoutManager.getWindowListIndex: the index, or -1 for None
getWindowListIndex(m, w) == IndexOf(m.windowIds, w)

\* MasterStackLayoutManager.getMasterIds, getStackIds
getMasterIds(m) == SubSeq(m.windowIds, 1,
                          IF m.masterCount < Len(m.windowIds) THEN m.masterCount
                          ELSE Len(m.windowIds))
getStackIds(m) == SliceFrom(m.windowIds, m.masterCount)

\* MasterStackLayoutManager.shouldSubstackExist
shouldSubstackExist(m) ==
    /\ m.stackLayout = "splitv"
    /\ m.visibleStackLimit > 0
    /\ Len(m.windowIds) > m.visibleStackLimit

\* MasterStackLayoutManager.setStackLayout
setStackLayout(mc) ==
    IF Len(mc.m.windowIds) > 1
    THEN managerCommand(mc, MCmd(At(mc.m.windowIds, 1), "layout " \o mc.m.stackLayout, NoWin))
    ELSE mc

\* MasterStackLayoutManager.setMasterWidth
setMasterWidth(mc) ==
    IF mc.m.windowIds # <<>>
    THEN managerCommand(mc, MCmd(At(mc.m.windowIds, 0), "resize set width ppt", mc.m.masterWidth))
    ELSE mc

\* MasterStackLayoutManager.removeExtraNesting; T.nest says that the master's
\* parent, in the tree fetched here, is not the workspace
removeExtraNesting(mc, T) ==
    IF ~MOk(mc) THEN mc
    ELSE IF ~Has(mc.m.windowIds, 0) THEN MRaise(mc, "IndexError")
    ELSE IF ~find_by_id(T, At(mc.m.windowIds, 0)) THEN mc
    ELSE IF T.nest THEN managerCommand(mc, MCmd(NoWin, "split none on the parent", NoWin))
    ELSE mc

\* MasterStackLayoutManager.createSubstackIfNeeded
createSubstackIfNeeded(mc) ==
    IF ~MOk(mc) THEN mc
    ELSE IF shouldSubstackExist(mc.m) /\ ~mc.m.substackExists
    THEN LET ids == mc.m.windowIds
             firstSubstack == At(ids, mc.m.visibleStackLimit)
             c1 == managerCommand(mc, MCmd(firstSubstack, "splitv, layout stacking", NoWin))
             c2 == moveAll(c1, Reversed(SliceFrom(ids, mc.m.visibleStackLimit + 1)),
                           firstSubstack)
         IN [c2 EXCEPT !.m.substackExists = TRUE]
    ELSE mc

\* MasterStackLayoutManager.destroySubstackIfExists
destroySubstackIfExists(mc) ==
    IF ~MOk(mc) THEN mc
    ELSE IF mc.m.substackExists
    THEN LET ids == mc.m.windowIds
         IN IF ~Has(ids, mc.m.visibleStackLimit - 1) THEN MRaise(mc, "IndexError")
            ELSE LET c1 == moveAll(mc, Reversed(SliceFrom(ids, mc.m.visibleStackLimit)),
                                   At(ids, mc.m.visibleStackLimit - 1))
                 IN [c1 EXCEPT !.m.substackExists = FALSE]
    ELSE mc

positionAtIndex_After(m, T, positionAfter) ==
    LET k == IndexOf(m.windowIds, IF positionAfter # NoWin THEN positionAfter
                                  ELSE m.lastFocusedWindowId)
    IN IF k < 0 \/ (positionAfter = NoWin /\ ~find_by_id(T, m.lastFocusedWindowId))
       THEN 0 ELSE k + 1

\* the index pushWindow inserts at
positionAtIndex(m, T, positionAfter) ==
    IF positionAfter # NoWin
    THEN IF getWindowListIndex(m, positionAfter) < 0 THEN 0
         ELSE getWindowListIndex(m, positionAfter) + 1
    ELSE IF m.lastFocusedWindowId # NoWin
              /\ find_by_id(T, m.lastFocusedWindowId)
              /\ getWindowListIndex(m, m.lastFocusedWindowId) >= 0
         THEN getWindowListIndex(m, m.lastFocusedWindowId)
         ELSE 0

PlaceNewWindow_SplitsFirst(mc, w, pos) ==
    managerCommand(mc, MCmd(w, "splith", NoWin))

\* pushWindow: the commands that place the new window, by the list length
PlaceNewWindow(mc, w, pos) ==
    LET ids == mc.m.windowIds
    IN IF Len(ids) = 0 THEN mc
       ELSE IF Len(ids) = 1
       THEN LET masterId == IF pos = 0 THEN w ELSE At(ids, 0)
                firstStackId == IF pos = 0 THEN At(ids, 0) ELSE w
                c1 == IF mc.m.stackSide = "left"
                      THEN moveWindowCommand(
                             managerCommand(mc, MCmd(firstStackId, "splith", NoWin)),
                             masterId, firstStackId)
                      ELSE moveWindowCommand(
                             managerCommand(mc, MCmd(masterId, "splith", NoWin)),
                             firstStackId, masterId)
            IN managerCommand(c1, MCmd(firstStackId, "splitv", NoWin))
       ELSE IF pos = 0
       THEN swapWindowsCommand(
              moveWindowCommand(swapWindowsCommand(mc, w, At(ids, 0)),
                                At(ids, 0), At(ids, 1)),
              At(ids, 0), At(ids, 1))
       ELSE IF pos = 1 \/ (mc.m.substackExists /\ pos = mc.m.visibleStackLimit)
       THEN IF ~Has(ids, pos) THEN MRaise(mc, "IndexError")
            ELSE swapWindowsCommand(moveWindowCommand(mc, w, At(ids, pos)),
                                    w, At(ids, pos))
       ELSE IF ~Has(ids, pos - 1) THEN MRaise(mc, "IndexError")
            ELSE moveWindowCommand(mc, w, At(ids, pos - 1))

\* pushWindow: a new visible stack window demotes one into the substack
DemoteIntoSubstack(mc, pos) ==
    LET ids == mc.m.windowIds
        limit == mc.m.visibleStackLimit
    IN IF ~MOk(mc) THEN mc
       ELSE IF mc.m.substackExists /\ pos < limit
       THEN IF ~(Has(ids, limit - 1) /\ Has(ids, limit)) THEN MRaise(mc, "IndexError")
            ELSE swapWindowsCommand(
                   moveWindowCommand(mc, At(ids, limit - 1), At(ids, limit)),
                   At(ids, limit - 1), At(ids, limit))
       ELSE mc

\* pushWindow: with two windows the master and the stack have just been made
AdjustNewPair(mc, T) ==
    IF Len(mc.m.windowIds) = 2
    THEN removeExtraNesting(setMasterWidth(setStackLayout(mc)), T)
    ELSE mc

\* pushWindow: the list insertion and what follows it
InsertPushed(mc, T, w, pos) ==
    IF ~MOk(mc) THEN mc
    ELSE AdjustNewPair(
           createSubstackIfNeeded([mc EXCEPT !.m.windowIds = InsertAt(@, pos, w)]), T)

PushAt(mc, T, w, pos) ==
    InsertPushed(DemoteIntoSubstack(PlaceNewWindow(mc, w, pos), pos), T, w, pos)

\* MasterStackLayoutManager.pushWindow; positionAfter NoWin is the omitted argument
pushWindow(mc, T, w, positionAfter) ==
    IF ~MOk(mc) THEN mc
    ELSE PushAt(mc, T, w, positionAtIndex(mc.m, T, positionAfter))

RestoreMaster_Ppt(mc, px) ==
    managerCommand(mc, MCmd(At(mc.m.windowIds, 0), "resize set width ppt", mc.m.masterWidth))

\* popWindow: the new master is moved into place and given a width
RestoreMaster(mc, px) ==
    LET ids == mc.m.windowIds
        c1 == managerCommand(mc, MCmd(At(ids, 0), "move " \o opposite(mc.m.stackSide), NoWin))
    IN IF px > 0
       THEN managerCommand(c1, MCmd(At(ids, 0), "resize set width px", px))
       ELSE IF mc.m.lastKnownMasterWidth > 0
       THEN managerCommand(c1, MCmd(At(ids, 0), "resize set width px",
                                    mc.m.lastKnownMasterWidth))
       ELSE managerCommand(c1, MCmd(At(ids, 0), "resize set width ppt", mc.m.masterWidth))

\* popWindow: if not self.shouldSubstackExist(): self.destroySubstackIfExists()
DestroyIfUnneeded(mc) ==
    IF MOk(mc) /\ ~shouldSubstackExist(mc.m) THEN destroySubstackIfExists(mc) ELSE mc

\* popWindow: the visible stack and the substack are rebalanced
RebalanceAfterPop(mc, sourceIndex) ==
    LET ids == mc.m.windowIds
        limit == mc.m.visibleStackLimit
    IN IF ~mc.m.substackExists THEN mc
       ELSE DestroyIfUnneeded(
              IF sourceIndex < limit
              THEN IF ~(Has(ids, limit - 2) /\ Has(ids, limit - 1))
                   THEN MRaise(mc, "IndexError")
                   ELSE moveWindowCommand(mc, At(ids, limit - 1), At(ids, limit - 2))
              ELSE mc)

popWindow_KeepsId(mc, w, px) == mc

\* popWindow: the master was removed and a master and a stack remain
AfterRemoval(mc, sourceIndex, px) ==
    IF sourceIndex = 0 /\ Len(mc.m.windowIds) >= 2 THEN RestoreMaster(mc, px) ELSE mc

\* MasterStackLayoutManager.popWindow; px is window.rect.width
popWindow(mc, w, px) ==
    IF ~MOk(mc) THEN mc
    ELSE LET sourceIndex == getWindowListIndex(mc.m, w)
         IN IF sourceIndex < 0 THEN mc
            ELSE RebalanceAfterPop(
                   AfterRemoval([mc EXCEPT !.m.windowIds = SeqRemove(@, w)],
                                sourceIndex, px),
                   sourceIndex)

\* MasterStackLayoutManager._arrangeMultiMaster
RECURSIVE ChainMasters(_, _, _)
ChainMasters(mc, masterIds, i) ==
    IF i >= Len(masterIds) THEN mc
    ELSE ChainMasters(moveWindowCommand(mc, At(masterIds, i), At(masterIds, i - 1)),
                      masterIds, i + 1)

arrangeMultiMaster(mc) ==
    LET masterIds == getMasterIds(mc.m)
    IN IF Len(masterIds) <= 1 THEN mc
       ELSE ChainMasters(managerCommand(mc, MCmd(At(masterIds, 0), "splitv", NoWin)),
                         masterIds, 1)

\* arrangeWindows: for window in windows: pushWindow(workspace, window, previousWindow)
RECURSIVE PushAll(_, _, _, _)
PushAll(mc, T, windows, previousWindow) ==
    IF windows = <<>> \/ ~MOk(mc) THEN mc
    ELSE PushAll(pushWindow(mc, T, Head(windows), previousWindow),
                 T, Tail(windows), Head(windows))

\* arrangeWindows: the master area is arranged when there are several masters
MultiMasterIfNeeded(mc) ==
    IF MOk(mc) /\ mc.m.masterCount > 1 /\ Len(mc.m.windowIds) > mc.m.masterCount
    THEN arrangeMultiMaster(mc)
    ELSE mc

\* MasterStackLayoutManager.arrangeWindows
arrangeWindows(mc, T) ==
    LET found == leaves(T)
        windows == IF T.focus # NoWin /\ IndexOf(found, T.focus) >= 0
                   THEN <<T.focus>> \o SeqRemove(found, T.focus)
                   ELSE found
    IN IF ~MOk(mc) \/ found = <<>> THEN mc
       ELSE MultiMasterIfNeeded(
              removeExtraNesting(
                PushAll([mc EXCEPT !.m.windowIds = <<>>], T, windows, NoWin), T))

\* self.floatingWindowIds is assigned when the call so far has not raised
TrackFloating(mc, floating) ==
    IF MOk(mc) THEN [mc EXCEPT !.m.floatingWindowIds = floating] ELSE mc

\* MasterStackLayoutManager.__init__ with a workspace container (or None)
NewMasterStack(opts, T, present) ==
    LET m0 == [windowIds |-> <<>>, floatingWindowIds |-> {},
               substackExists |-> FALSE, lastFocusedWindowId |-> NoWin,
               maximized |-> FALSE, masterWidthBeforeMaximize |-> 0,
               lastKnownMasterWidth |-> 0, masterWidth |-> opts.masterWidth,
               stackSide |-> opts.stackSide, stackLayout |-> opts.stackLayout,
               visibleStackLimit |-> opts.visibleStackLimit,
               masterCount |-> opts.masterCount]
    IN IF ~present THEN NewCall(m0)
       ELSE TrackFloating(arrangeWindows(NewCall(m0), T), floating_nodes(T))

\* MasterStackLayoutManager._updateMasterWidth; T.px is master.rect.width
updateMasterWidth(mc, T, w) ==
    LET ids == mc.m.windowIds
    IN IF ids = <<>> THEN mc
       ELSE IF (w = At(ids, 0) \/ find_by_id(T, At(ids, 0))) /\ T.px > 0
       THEN [mc EXCEPT !.m.lastKnownMasterWidth = T.px]
       ELSE mc

\* MasterStackLayoutManager.windowAdded
msWindowAdded(mc, T, w) ==
    IF msIsFloating(T, w)
    THEN [mc EXCEPT !.m.floatingWindowIds = @ \cup {w}]
    ELSE pushWindow(mc, T, w, NoWin)

\* MasterStackLayoutManager.windowRemoved; floating is what the event's
\* container says
msWindowRemoved(mc, T, w, floating) ==
    IF floating
    THEN [mc EXCEPT !.m.floatingWindowIds = @ \ {w}]
    ELSE popWindow(mc, w, T.px)

\* MasterStackLayoutManager.windowFocused
msWindowFocused(mc, T, w) ==
    IF msIsFloating(T, w) THEN mc
    ELSE updateMasterWidth([mc EXCEPT !.m.lastFocusedWindowId = w], T, w)

\* MasterStackLayoutManager.windowMoved
msWindowMoved(mc, T, w) ==
    IF msIsFloating(T, w) THEN mc ELSE updateMasterWidth(mc, T, w)

\* MasterStackLayoutManager.windowFloating
msWindowFloating(mc, T, w) ==
    IF msIsFloating(T, w)
    THEN TrackFloating(popWindow(mc, w, T.px), mc.m.floatingWindowIds \cup {w})
    ELSE IF w \notin mc.m.floatingWindowIds THEN MRaise(mc, "KeyError")
    ELSE pushWindow([mc EXCEPT !.m.floatingWindowIds = @ \ {w}], T, w, NoWin)

toggleStackLayout_NotWhenMaximized(mc) ==
    IF mc.m.maximized THEN mc
    ELSE createSubstackIfNeeded(setStackLayout(destroySubstackIfExists(
           [mc EXCEPT !.m.stackLayout = nextChoice(@)])))

\* MasterStackLayoutManager.toggleStackLayout
toggleStackLayout(mc) ==
    LET c1 == [mc EXCEPT !.m.stackLayout = nextChoice(@)]
    IN IF c1.m.maximized THEN c1
       ELSE createSubstackIfNeeded(setStackLayout(destroySubstackIfExists(c1)))

\* the container id of firstStack.parent, which is no window
stackParentId == -1

\* MasterStackLayoutManager.toggleStackSide; T.px is master.rect.width
toggleStackSide(mc, T) ==
    LET ids == mc.m.windowIds
    IN IF Len(ids) >= 2
       THEN IF ~find_by_id(T, At(ids, 1)) THEN mc
            ELSE LET c1 == swapWindowsCommand(mc, At(ids, 0), stackParentId)
                 IN IF ~find_by_id(T, At(ids, 0)) THEN MRaise(c1, "AssertionError")
                    ELSE [managerCommand(c1, MCmd(At(ids, 0), "resize set width px", T.px))
                            EXCEPT !.m.stackSide = opposite(@)]
       ELSE [mc EXCEPT !.m.stackSide = opposite(@)]

\* MasterStackLayoutManager._moveWindowMaximized
moveWindowMaximized(mc, w, sourceIndex, targetIndex) ==
    LET ids == mc.m.windowIds
    IN IF targetIndex = 0
       THEN swapWindowsCommand(moveWindowCommand(mc, w, At(ids, 0)), w, At(ids, 0))
       ELSE moveWindowCommand(mc, w,
              At(ids, IF targetIndex < sourceIndex THEN targetIndex - 1 ELSE targetIndex))

\* _moveWindowNormal returns True for neighbours inside the stack
skipSubstackRebalance(sourceIndex, targetIndex) ==
    /\ sourceIndex # 0
    /\ targetIndex # 0
    /\ sourceIndex - targetIndex \in {-1, 1}

\* MasterStackLayoutManager._moveWindowNormal, its commands
moveWindowNormal(mc, w, sourceIndex, targetIndex) ==
    LET ids == mc.m.windowIds
        masterId == At(ids, 0)
        topOfStackId == At(ids, 1)
    IN IF (sourceIndex = 0 /\ targetIndex = 1) \/ (sourceIndex = 1 /\ targetIndex = 0)
       THEN swapWindowsCommand(mc, masterId, topOfStackId)
       ELSE IF sourceIndex = 0
       THEN moveWindowCommand(swapWindowsCommand(mc, topOfStackId, masterId),
                              masterId, At(ids, targetIndex))
       ELSE IF targetIndex = 0
       THEN swapWindowsCommand(
              moveWindowCommand(swapWindowsCommand(mc, masterId, At(ids, sourceIndex)),
                                masterId, At(ids, 1)),
              masterId, At(ids, 1))
       ELSE IF sourceIndex - targetIndex \in {-1, 1}
       THEN swapWindowsCommand(mc, At(ids, sourceIndex), At(ids, targetIndex))
       ELSE IF targetIndex = 1
       THEN swapWindowsCommand(moveWindowCommand(mc, At(ids, sourceIndex), topOfStackId),
                               At(ids, sourceIndex), topOfStackId)
       ELSE IF mc.m.substackExists /\ targetIndex = mc.m.visibleStackLimit
               /\ sourceIndex > mc.m.visibleStackLimit
       THEN swapWindowsCommand(moveWindowCommand(mc, w, At(ids, targetIndex)),
                               w, At(ids, targetIndex))
       ELSE moveWindowCommand(mc, w,
              At(ids, IF sourceIndex < targetIndex THEN targetIndex ELSE targetIndex - 1))

\* _rebalanceSubstackAfterMove: the window moved out of the substack
DemoteAfterMove(mc, w, sourceIndex, targetIndex) ==
    LET ids == mc.m.windowIds
        limit == mc.m.visibleStackLimit
    IN IF ~MOk(mc) THEN mc
       ELSE IF sourceIndex >= limit /\ targetIndex < limit
       THEN IF ~(Has(ids, limit - 1) /\ Has(ids, limit)) THEN MRaise(mc, "IndexError")
            ELSE IF At(ids, limit) = w /\ ~Has(ids, limit + 1)
            THEN MRaise(mc, "IndexError")
            ELSE LET firstSubstack == IF At(ids, limit) = w THEN At(ids, limit + 1)
                                      ELSE At(ids, limit)
                 IN swapWindowsCommand(
                      moveWindowCommand(mc, At(ids, limit - 1), firstSubstack),
                      At(ids, limit - 1), firstSubstack)
       ELSE mc

\* _rebalanceSubstackAfterMove: the window moved into the substack
PromoteAfterMove(mc, sourceIndex, targetIndex) ==
    LET ids == mc.m.windowIds
        limit == mc.m.visibleStackLimit
    IN IF ~MOk(mc) THEN mc
       ELSE IF sourceIndex < limit /\ targetIndex >= limit
       THEN IF ~(Has(ids, limit - 1) /\ Has(ids, limit)) THEN MRaise(mc, "IndexError")
            ELSE moveWindowCommand(mc, At(ids, limit), At(ids, limit - 1))
       ELSE mc

\* MasterStackLayoutManager._rebalanceSubstackAfterMove
rebalanceSubstackAfterMove(mc, w, sourceIndex, targetIndex) ==
    PromoteAfterMove(DemoteAfterMove(mc, w, sourceIndex, targetIndex),
                     sourceIndex, targetIndex)

moveWindowToIndex_Swaps(mc, w, targetIndex) ==
    IF ~Has(mc.m.windowIds, targetIndex) \/ getWindowListIndex(mc.m, w) < 0 THEN mc
    ELSE swapWindowsCommand(mc, w, At(mc.m.windowIds, targetIndex))

\* moveWindowToIndex: self.windowIds.remove, self.windowIds.insert
Reinsert(mc, w, targetIndex) ==
    IF ~MOk(mc) THEN mc
    ELSE [mc EXCEPT !.m.windowIds = InsertAt(SeqRemove(@, w), targetIndex, w)]

\* MasterStackLayoutManager.moveWindowToIndex
moveWindowToIndex(mc, w, targetIndex) ==
    LET ids == mc.m.windowIds
        sourceIndex == getWindowListIndex(mc.m, w)
    IN IF ~MOk(mc) THEN mc
       ELSE IF ~(targetIndex >= 0 /\ targetIndex < Len(ids)) THEN MRaise(mc, "AssertionError")
       ELSE IF Len(ids) <= 1 THEN mc
       ELSE IF sourceIndex < 0 THEN mc
       ELSE IF sourceIndex = targetIndex THEN mc
       ELSE Reinsert(
              IF mc.m.maximized
              THEN moveWindowMaximized(mc, w, sourceIndex, targetIndex)
              ELSE IF mc.m.substackExists
                      /\ ~skipSubstackRebalance(sourceIndex, targetIndex)
              THEN rebalanceSubstackAfterMove(
                     moveWindowNormal(mc, w, sourceIndex, targetIndex),
                     w, sourceIndex, targetIndex)
              ELSE moveWindowNormal(mc, w, sourceIndex, targetIndex),
              w, targetIndex)

\* MasterStackLayoutManager.moveWindowRelative
moveWindowRelative(mc, w, delta) ==
    LET sourceIndex == getWindowListIndex(mc.m, w)
    IN IF sourceIndex < 0 THEN mc
       ELSE moveWindowToIndex(mc, w,
              (sourceIndex + delta + Len(mc.m.windowIds)) % Len(mc.m.windowIds))

\* MasterStackLayoutManager.rotateWindows
rotateWindows(mc, T, direction) ==
    LET ids == mc.m.windowIds
    IN IF Len(ids) <= 1 THEN mc
       ELSE IF (mc.m.stackSide = "left" /\ direction = "cw")
               \/ (mc.m.stackSide = "right" /\ direction = "ccw")
       THEN IF ~find_by_id(T, At(ids, 0)) THEN MRaise(mc, "AssertionError")
            ELSE moveWindowToIndex(mc, At(ids, 0), Len(ids) - 1)
       ELSE IF ~find_by_id(T, At(ids, -1)) THEN MRaise(mc, "AssertionError")
            ELSE moveWindowToIndex(mc, At(ids, -1), 0)

\* MasterStackLayoutManager.swapWindows
swapWindows(mc, source, target) ==
    LET ids == mc.m.windowIds
        sourceIndex == getWindowListIndex(mc.m, source)
        targetIndex == getWindowListIndex(mc.m, target)
    IN IF ids = <<>> \/ source = target THEN mc
       ELSE IF sourceIndex < 0 \/ targetIndex < 0 THEN mc
       ELSE [swapWindowsCommand(mc, source, target)
               EXCEPT !.m.windowIds = [i \in 1..Len(ids) |->
                          IF i = sourceIndex + 1 THEN target
                          ELSE IF i = targetIndex + 1 THEN source
                          ELSE ids[i]]]

\* MasterStackLayoutManager._moveHorizontalMaximized
moveHorizontalMaximized(mc, w, sourceIndex, toSide) ==
    LET n == Len(mc.m.windowIds)
    IN moveWindowToIndex(mc, w,
         (IF toSide = "right" THEN sourceIndex + 1 ELSE sourceIndex - 1 + n) % n)

\* MasterStackLayoutManager._moveHorizontalInHorizontalStack
moveHorizontalInHorizontalStack(mc, T, w, sourceIndex, isMaster, toSide) ==
    LET ids == mc.m.windowIds
        side == mc.m.stackSide
    IN IF side = "left"
          /\ ((side = toSide /\ isMaster)
              \/ (side # toSide /\ sourceIndex + 1 = Len(ids)))
       THEN IF ~(find_by_id(T, At(ids, 0)) /\ find_by_id(T, At(ids, -1)))
            THEN MRaise(mc, "AssertionError")
            ELSE swapWindows(mc, At(ids, 0), At(ids, -1))
       ELSE IF side = "left"
               /\ ((isMaster /\ side # toSide) \/ (sourceIndex = 1 /\ side = toSide))
       THEN mc
       ELSE moveWindowRelative(mc, w, IF toSide = "left" THEN -1 ELSE 1)

\* MasterStackLayoutManager._moveHorizontalInVerticalStack
moveHorizontalInVerticalStack(mc, w, isMaster, toSide) ==
    IF mc.m.stackSide = toSide /\ isMaster THEN moveWindowToIndex(mc, w, 1)
    ELSE IF mc.m.stackSide # toSide /\ ~isMaster THEN moveWindowToIndex(mc, w, 0)
    ELSE mc

\* MasterStackLayoutManager.moveWindowHorizontally
moveWindowHorizontally(mc, T, w, toSide) ==
    LET ids == mc.m.windowIds
        sourceIndex == getWindowListIndex(mc.m, w)
    IN IF Len(ids) < 2 THEN mc
       ELSE IF sourceIndex < 0 THEN MRaise(mc, "AssertionError")
       ELSE IF mc.m.maximized THEN moveHorizontalMaximized(mc, w, sourceIndex, toSide)
       ELSE IF mc.m.stackLayout \in {"tabbed", "splith"}
       THEN moveHorizontalInHorizontalStack(mc, T, w, sourceIndex, w = At(ids, 0), toSide)
       ELSE moveHorizontalInVerticalStack(mc, w, w = At(ids, 0), toSide)

\* MasterStackLayoutManager.focusWindowRelative
focusWindowRelative(mc, T, delta) ==
    LET ids == mc.m.windowIds
        sourceIndex == getWindowListIndex(mc.m, mc.m.lastFocusedWindowId)
    IN IF mc.m.lastFocusedWindowId = NoWin THEN mc
       ELSE IF ~find_by_id(T, mc.m.lastFocusedWindowId) THEN mc
       ELSE IF sourceIndex < 0 THEN mc
       ELSE managerCommand(mc,
              MCmd(At(ids, (sourceIndex + delta + Len(ids)) % Len(ids)), "focus", NoWin))

\* toggleMaximize: self.maximized = not self.maximized
FlipMaximized(mc) == IF MOk(mc) THEN [mc EXCEPT !.m.maximized = ~@] ELSE mc

\* MasterStackLayoutManager.toggleMaximize; T.px is master.rect.width
toggleMaximize(mc, T) ==
    LET ids == mc.m.windowIds
    IN FlipMaximized(
              IF Len(ids) < 2 THEN mc
              ELSE IF ~mc.m.maximized
              THEN IF ~find_by_id(T, At(ids, 0)) THEN MRaise(mc, "AssertionError")
                   ELSE managerCommand(
                          swapWindowsCommand(
                            moveWindowCommand(
                              destroySubstackIfExists(
                                [mc EXCEPT !.m.masterWidthBeforeMaximize = T.px]),
                              At(ids, 0), At(ids, 1)),
                            At(ids, 0), At(ids, 1)),
                          MCmd(At(ids, 0), "layout tabbed", NoWin))
              ELSE setStackLayout(
                     managerCommand(
                       managerCommand(
                         createSubstackIfNeeded(
                           managerCommand(mc, MCmd(At(ids, 0), "layout splitv", NoWin))),
                         MCmd(At(ids, 0), "move " \o opposite(mc.m.stackSide), NoWin)),
                       MCmd(At(ids, 0), "resize set width px",
                            mc.m.masterWidthBeforeMaximize))))

\* MasterStackLayoutManager._addMaster
addMaster(mc, T) ==
    IF mc.m.masterCount >= Len(mc.m.windowIds) THEN mc
    ELSE arrangeWindows([mc EXCEPT !.m.masterCount = @ + 1], T)

\* MasterStackLayoutManager._removeMaster
removeMaster(mc, T) ==
    IF mc.m.masterCount <= 1 THEN mc
    ELSE arrangeWindows([mc EXCEPT !.m.masterCount = @ - 1], T)

\* MasterStackLayoutManager._swapWithMaster
swapWithMaster(mc, T, focusedWin) ==
    IF ~Has(mc.m.windowIds, 0) THEN MRaise(mc, "IndexError")
    ELSE IF ~find_by_id(T, At(mc.m.windowIds, 0)) THEN MRaise(mc, "AssertionError")
    ELSE swapWindows(mc, focusedWin, At(mc.m.windowIds, 0))

\* MasterStackLayoutManager._handleMoveToIndex, for "move to index <index>"
handleMoveToIndex(mc, focusedWin, index) ==
    IF 0 <= index /\ index < Len(mc.m.windowIds)
    THEN moveWindowToIndex(mc, focusedWin, index)
    ELSE mc

NoFocusCommands ==
    {"focus up", "focus down", "focus master", "toggle", "side toggle",
     "maximize", "master add", "master remove"}
FocusCommands ==
    {"move up", "move down", "move right", "move left", "move to master",
     "rotate ccw", "rotate cw", "swap master", "move to index", "bogus"}
MSCommands == NoFocusCommands \cup FocusCommands

\* MasterStackLayoutManager.onCommand; index is the number in "move to index"
msOnCommand(mc, T, cmdName, index) ==
    LET focusedWin == T.focus
    IN IF cmdName = "focus up" THEN focusWindowRelative(mc, T, -1)
       ELSE IF cmdName = "focus down" THEN focusWindowRelative(mc, T, 1)
       ELSE IF cmdName = "focus master"
       THEN IF ~Has(mc.m.windowIds, 0) THEN MRaise(mc, "IndexError")
            ELSE managerCommand(mc, MCmd(At(mc.m.windowIds, 0), "focus", NoWin))
       ELSE IF cmdName = "toggle" THEN toggleStackLayout(mc)
       ELSE IF cmdName = "side toggle" THEN toggleStackSide(mc, T)
       ELSE IF cmdName = "maximize" THEN toggleMaximize(mc, T)
       ELSE IF cmdName = "master add" THEN addMaster(mc, T)
       ELSE IF cmdName = "master remove" THEN removeMaster(mc, T)
       ELSE IF focusedWin = NoWin THEN mc
       ELSE IF getWindowListIndex(mc.m, focusedWin) < 0 THEN mc
       ELSE IF cmdName = "move up" THEN moveWindowRelative(mc, focusedWin, -1)
       ELSE IF cmdName = "move down" THEN moveWindowRelative(mc, focusedWin, 1)
       ELSE IF cmdName = "move right" THEN moveWindowHorizontally(mc, T, focusedWin, "right")
       ELSE IF cmdName = "move left" THEN moveWindowHorizontally(mc, T, focusedWin, "left")
       ELSE IF cmdName = "move to master" THEN moveWindowToIndex(mc, focusedWin, 0)
       ELSE IF cmdName = "rotate ccw" THEN rotateWindows(mc, T, "ccw")
       ELSE IF cmdName = "rotate cw" THEN rotateWindows(mc, T, "cw")
       ELSE IF cmdName = "swap master" THEN swapWithMaster(mc, T, focusedWin)
       ELSE IF cmdName = "move to index" THEN handleMoveToIndex(mc, focusedWin, index)
       ELSE mc


\* ------------------------------------------------------------------ Init
NoWindow == [ws |-> NoWs, floating |-> FALSE, rule |-> "none"]

\* the trees the daemon may find at startup, all on workspace "a": no window,
\* window 1 tiled or floating, windows 1 and 2 tiled
OnA(f) == [ws |-> "a", floating |-> f, rule |-> "none"]
InitTrees ==
    { [w \in Windows |-> NoWindow] }
    \cup { [w \in Windows |-> IF w = 1 THEN OnA(f) ELSE NoWindow] : f \in BOOLEAN }
    \cup { [w \in Windows |-> IF w <= 2 THEN OnA(FALSE) ELSE NoWindow] }

\* the master/stack manager of one workspace, taken on its own: the knobs of
\* its configuration, and the state in which no call has been made on it
defaultMasterWidth == 50
EmptyTree == [w \in MSWindows |-> "absent"]
Limits == {2}
MSOptionSets ==
    [masterWidth : {defaultMasterWidth}, stackSide : {"right"}, stackLayout : {"splitv"},
     visibleStackLimit : Limits, masterCount : {1}]
\* the workspaces a manager is first constructed on: empty, or two tiled windows
StartTrees == {EmptyTree, [w \in MSWindows |-> IF w <= 2 THEN "tiled" ELSE "absent"]}
TreeOf(leaf, focus, nest, px) == [leaf |-> leaf, focus |-> focus, nest |-> nest, px |-> px]
NoPre == [windowIds |-> <<>>, substackExists |-> FALSE, maximized |-> FALSE]
NoCall == [op |-> "-", w |-> NoWin, cmd |-> "-", index |-> 0, px |-> 0,
           cmds |-> <<>>, exc |-> "none", pre |-> NoPre]
IdleOptions ==
    [masterWidth |-> defaultMasterWidth, stackSide |-> "right", stackLayout |-> "splitv",
     visibleStackLimit |-> 2, masterCount |-> 1]

\* the daemon before Layman.run has done anything
InitDaemon ==
    /\ mainPc = "boot"
    /\ bootTree = [win |-> [w \in Windows |-> NoWindow],
                   focused |-> NoWin, treeWs |-> {}]
    /\ listenerArmed = FALSE
    /\ queue = <<>>
    /\ enqCount = 0
    /\ started = 0
    /\ current = NoMsg
    /\ workspaceStates = [n \in Workspaces |-> NoState]
    /\ nextInst = 0
    /\ calls = <<>>
    /\ ipc = <<>>
    /\ handled = <<>>
    /\ outcome = "-"
    /\ escaped = FALSE
    /\ crash = "none"
    /\ serverPc = "accept"
    /\ waitSlot = 0
    /\ slots = [t \in Tickets |-> <<>>]
    /\ sent = [t \in Tickets |-> <<>>]
    /\ timedOut = {}

InitOrch ==
    /\ win \in InitTrees
    /\ treeWs = {"a"}
    /\ focused = IF win[1].ws # NoWs THEN 1 ELSE NoWin
    /\ options \in [excluded : {{}, {"a"}},
                    layout : {"MasterStack", "none", "bogus"}]
    /\ InitDaemon

\* the stand-alone focus history, unused
NoHistoryCall == [op |-> "-", w |-> NoWin, ret |-> NoWin, pre |-> NewFocusHistory]

InitIdleHistory ==
    /\ history = NewFocusHistory
    /\ fhLast = NoHistoryCall
    /\ fhLeft = 0

\* the stand-alone manager, unused
InitIdleManager ==
    /\ msOptions = IdleOptions
    /\ msTree = EmptyTree
    /\ mgr = NewMasterStack(IdleOptions, TreeOf(EmptyTree, NoWin, FALSE, 0), FALSE).m
    /\ msLast = NoCall
    /\ msSub = {}
    /\ msLeft = 0

Init ==
    /\ InitOrch
    /\ InitIdleManager
    /\ InitIdleHistory

\* ------------------------------------------------------------- main thread
\* Layman.run: the tree snapshot, then ListenerThread(...) and MessageServer(...)
StartThreads ==
    /\ mainPc = "boot"
    /\ bootTree' = Snapshot
    /\ listenerArmed' = TRUE
    /\ mainPc' = "init"
    /\ UNCHANGED <<fhVars, msVars, treeVars, options, queue, enqCount, started, current,
                   orchVars, logVars, serverVars>>

\* fault injection: a startup that initializes no workspace
InitAll_SkipsAll(ctx, names, T, opts) == ctx

\* for workspace in tree.workspaces(): self.initWorkspace(workspace)
RECURSIVE InitAll(_, _, _, _)
InitAll(ctx, names, T, opts) ==
    IF names = <<>> \/ ~Ok(ctx) THEN ctx
    ELSE InitAll(IF Head(names) \in T.treeWs
                 THEN initWorkspace(ctx, Head(names), ConOf(T, Head(names)), opts)
                 ELSE ctx,
                 Tail(names), T, opts)

WorkspaceOrder == <<"a", "b">>

InitExisting ==
    /\ mainPc = "init"
    /\ \E orc \in Oracles :
         LET r == InitAll(NewCtx(workspaceStates, nextInst, orc),
                          WorkspaceOrder, bootTree, options)
         IN /\ workspaceStates' = r.st
            /\ nextInst' = r.inst
            /\ calls' = r.calls
            /\ ipc' = r.ipc
            /\ handled' = r.handled
            /\ outcome' = r.exc
            /\ escaped' = (escaped \/ ~Ok(r))
            /\ crash' = IF Ok(r) THEN crash ELSE "startup"
            /\ mainPc' = IF Ok(r) THEN "loop" ELSE "dead"
    /\ UNCHANGED <<fhVars, msVars, treeVars, options, bootTree, listenerArmed, queue, enqCount,
                   started, current, serverVars>>

Get_Lifo ==
    /\ mainPc = "loop"
    /\ queue # <<>>
    /\ current' = queue[Len(queue)]
    /\ queue' = SubSeq(queue, 1, Len(queue) - 1)
    /\ started' = started + 1
    /\ mainPc' = "handling"
    /\ calls' = <<>>
    /\ ipc' = <<>>
    /\ handled' = <<>>
    /\ outcome' = "-"
    /\ UNCHANGED <<fhVars, msVars, treeVars, options, bootTree, listenerArmed, enqCount,
                   orchVars, escaped, crash, serverVars>>

\* notification = notificationQueue.get()
Get ==
    /\ mainPc = "loop"
    /\ queue # <<>>
    /\ current' = Head(queue)
    /\ queue' = Tail(queue)
    /\ started' = started + 1
    /\ mainPc' = "handling"
    /\ calls' = <<>>
    /\ ipc' = <<>>
    /\ handled' = <<>>
    /\ outcome' = "-"
    /\ UNCHANGED <<fhVars, msVars, treeVars, options, bootTree, listenerArmed, enqCount,
                   orchVars, escaped, crash, serverVars>>

\* the body of the while loop of Layman.run for one message
RunHandler(ctx, T, m, opts) ==
    IF m.type = "command" THEN onCommand(ctx, T, m.text)
    ELSE IF m.kind = "init" THEN initWorkspace(ctx, m.ws, m.con, opts)
    ELSE IF m.kind = "binding" THEN onBinding(ctx, T, m.text)
    ELSE LET w == IF T.win[m.id].ws # NoWs THEN m.id ELSE NoWin
             ws == WorkspaceOf(T, w)
         IN IF m.kind = "new" THEN windowCreated(ctx, T, ws, w, opts)
            ELSE IF m.kind = "close" THEN windowClosed(ctx, T, m.id)
            ELSE IF m.kind = "floating" THEN windowFloating(ctx, T, ws, w)
            ELSE IF m.kind = "focus" THEN windowFocused(ctx, T, ws, w, m.id)
            ELSE windowMoved(ctx, T, ws, w)

\* only window events and commands run inside try / except Exception
Caught(m) == m.type = "command" \/ m.kind \in {"new", "close", "floating", "focus", "move"}

Handle ==
    /\ mainPc = "handling"
    /\ \E orc \in Oracles :
         LET r == RunHandler(NewCtx(workspaceStates, nextInst, orc),
                             Snapshot, current, options)
         IN /\ workspaceStates' = r.st
            /\ nextInst' = r.inst
            /\ calls' = r.calls
            /\ ipc' = r.ipc
            /\ handled' = r.handled
            /\ outcome' = IF r.note # "-" THEN r.note ELSE r.exc
            /\ escaped' = (escaped \/ ~Ok(r))
            /\ crash' = IF Ok(r) \/ Caught(current) THEN crash ELSE r.exc
            /\ mainPc' = IF Ok(r) \/ Caught(current) THEN "loop" ELSE "dead"
            /\ slots' = IF current.type = "command"
                        THEN [slots EXCEPT ![current.ticket] = Append(@, Reply(r))]
                        ELSE slots
    /\ current' = NoMsg
    /\ UNCHANGED <<fhVars, msVars, treeVars, options, bootTree, listenerArmed, queue, enqCount,
                   started, serverPc, waitSlot, sent, timedOut>>

\* --------------------------------------- compositor and the event listener
\* The compositor changes its tree and pushes the event; the listener thread
\* wraps it and puts it on the queue (ListenerThread.handleEvent).
CanEmit == listenerArmed /\ enqCount < MaxMsgs

\* fault injection: a listener that interprets the event itself
Emit_Interprets(m) ==
    /\ Put(m)
    /\ workspaceStates' =
         IF m.kind = "new" /\ workspaceStates[win'[m.id].ws].exists
         THEN [workspaceStates EXCEPT ![win'[m.id].ws].windowIds = @ \cup {m.id}]
         ELSE workspaceStates
    /\ UNCHANGED <<fhVars, msVars, options, mainPc, bootTree, listenerArmed, started, current,
                   nextInst, logVars, serverVars>>

Emit(m) ==
    /\ Put(m)
    /\ UNCHANGED <<fhVars, msVars, options, mainPc, bootTree, listenerArmed, started, current,
                   orchVars, logVars, serverVars>>

CompNew(w, ws, rule) ==
    /\ CanEmit
    /\ win[w].ws = NoWs
    /\ ws \in treeWs
    /\ win' = [win EXCEPT ![w] = [ws |-> ws, floating |-> FALSE, rule |-> rule]]
    /\ UNCHANGED <<focused, treeWs>>
    /\ Emit(EventMsg("new", w, NoWs, NoCon, <<>>))

CompClose(w) ==
    /\ CanEmit
    /\ win[w].ws # NoWs
    /\ win' = [win EXCEPT ![w] = NoWindow]
    /\ focused' = IF focused = w THEN NoWin ELSE focused
    /\ UNCHANGED treeWs
    /\ Emit(EventMsg("close", w, NoWs, NoCon, <<>>))

CompMove(w, ws) ==
    /\ CanEmit
    /\ win[w].ws # NoWs
    /\ ws \in treeWs
    /\ win' = [win EXCEPT ![w].ws = ws]
    /\ UNCHANGED <<focused, treeWs>>
    /\ Emit(EventMsg("move", w, NoWs, NoCon, <<>>))

CompFloat(w) ==
    /\ CanEmit
    /\ win[w].ws # NoWs
    /\ win' = [win EXCEPT ![w].floating = ~@]
    /\ UNCHANGED <<focused, treeWs>>
    /\ Emit(EventMsg("floating", w, NoWs, NoCon, <<>>))

CompFocus(w) ==
    /\ CanEmit
    /\ win[w].ws # NoWs
    /\ focused # w
    /\ focused' = w
    /\ UNCHANGED <<win, treeWs>>
    /\ Emit(EventMsg("focus", w, NoWs, NoCon, <<>>))

CompWsInit(ws) ==
    /\ CanEmit
    /\ ws \notin treeWs
    /\ treeWs' = treeWs \cup {ws}
    /\ UNCHANGED <<win, focused>>
    /\ Emit(EventMsg("init", NoWin, ws,
                     [present |-> TRUE, tiled |-> {}, floating |-> {},
                      focus |-> NoWin], <<>>))

CompBinding(text) ==
    /\ CanEmit
    /\ UNCHANGED treeVars
    /\ Emit(EventMsg("binding", NoWin, NoWs, NoCon, text))

\* ---------------------------------------------------------- MessageServer
\* accept, recv, put the command with a fresh response queue, then wait
ClientSend(text) ==
    /\ mainPc # "boot"
    /\ serverPc = "accept"
    /\ enqCount < MaxMsgs
    /\ Put(CommandMsg(text))
    /\ serverPc' = "wait"
    /\ waitSlot' = enqCount + 1
    /\ UNCHANGED <<fhVars, msVars, treeVars, options, mainPc, bootTree, listenerArmed, started,
                   current, orchVars, logVars, slots, sent, timedOut>>

\* response_queue.get(timeout=10) returns; conn.sendall(response)
ServerReply ==
    /\ serverPc = "wait"
    /\ slots[waitSlot] # <<>>
    /\ sent' = [sent EXCEPT ![waitSlot] = Head(slots[waitSlot])]
    /\ serverPc' = "accept"
    /\ waitSlot' = 0
    /\ UNCHANGED <<fhVars, msVars, treeVars, options, mainPc, bootTree, listenerArmed, queue,
                   enqCount, started, current, orchVars, logVars, slots, timedOut>>

\* fault injection: a timeout that fires although the reply is there
ServerTimeout_AnyTime ==
    /\ serverPc = "wait"
    /\ sent' = [sent EXCEPT ![waitSlot] = TimeoutReply]
    /\ timedOut' = timedOut \cup {waitSlot}
    /\ serverPc' = "accept"
    /\ waitSlot' = 0
    /\ UNCHANGED <<fhVars, msVars, treeVars, options, mainPc, bootTree, listenerArmed, queue,
                   enqCount, started, current, orchVars, logVars, slots>>

\* fault injection: a timeout that cancels the command still in the queue
ServerTimeout_Cancels ==
    /\ serverPc = "wait"
    /\ slots[waitSlot] = <<>>
    /\ sent' = [sent EXCEPT ![waitSlot] = TimeoutReply]
    /\ timedOut' = timedOut \cup {waitSlot}
    /\ serverPc' = "accept"
    /\ waitSlot' = 0
    /\ queue' = SelectSeq(queue, LAMBDA m : m.ticket # waitSlot)
    /\ UNCHANGED <<fhVars, msVars, treeVars, options, mainPc, bootTree, listenerArmed,
                   enqCount, started, current, orchVars, logVars, slots>>

\* response_queue.get(timeout=10) raises Empty; the generic failure is sent
ServerTimeout ==
    /\ serverPc = "wait"
    /\ slots[waitSlot] = <<>>
    /\ sent' = [sent EXCEPT ![waitSlot] = TimeoutReply]
    /\ timedOut' = timedOut \cup {waitSlot}
    /\ serverPc' = "accept"
    /\ waitSlot' = 0
    /\ UNCHANGED <<fhVars, msVars, treeVars, options, mainPc, bootTree, listenerArmed, queue,
                   enqCount, started, current, orchVars, logVars, slots>>

\* ------------------------------------------------------------------ Next
Next ==
    \/ StartThreads
    \/ InitExisting
    \/ Get
    \/ Handle
    \/ \E w \in Windows, ws \in Workspaces, rule \in RuleActions : CompNew(w, ws, rule)
    \/ \E w \in Windows : CompClose(w)
    \/ \E w \in Windows, ws \in Workspaces : CompMove(w, ws)
    \/ \E w \in Windows : CompFloat(w)
    \/ \E w \in Windows : CompFocus(w)
    \/ \E ws \in Workspaces : CompWsInit(ws)
    \/ \E text \in BindingTexts : CompBinding(text)
    \/ \E text \in ClientTexts : ClientSend(text)
    \/ ServerReply
    \/ ServerTimeout

Spec == Init /\ [][Next]_vars

\* ------------------------------------------- the master/stack manager alone
\* One workspace and its MasterStackLayoutManager.  Every action is one event
\* or command as the orchestrator hands it over: the compositor's change to
\* the workspace, then the manager's method called inside
\* layoutManagerReloader on the workspace as it is after the change.  The
\* inputs a method reads off the containers (the focused window, a rect
\* width, the nesting of the master) are drawn for each call.
Present(leaf) == {w \in MSWindows : leaf[w] # "absent"}

\* ------------------------------------------- the compositor's containers
\* What the manager's commands do to the one thing the manager cannot read
\* back: which windows sit inside a substack container.  "splitv, layout
\* stacking" wraps the window in a new container; "move window to mark"
\* puts the window next to the marked one, in its container; "swap
\* container" exchanges the places of two windows; "move left/right" takes
\* the window out of the vertical containers to the workspace's row.  A
\* window that is closed or floated leaves its container, and a container
\* left empty is gone.
Swapped(sub, a, b) ==
    (sub \ {a, b}) \cup (IF a \in sub /\ b \in MSWindows THEN {b} ELSE {})
                   \cup (IF b \in sub THEN {a} ELSE {})

PlaceOne(sub, mark, c) ==
    IF c.verb = "splitv, layout stacking" THEN sub \cup {c.con}
    ELSE IF c.verb = "move window to mark move_target"
    THEN IF mark = NoWin \/ mark = c.con THEN sub
         ELSE IF mark \in sub THEN sub \cup {c.con} ELSE sub \ {c.con}
    ELSE IF c.verb = "swap container with con_id"
    THEN IF c.arg \in MSWindows THEN Swapped(sub, c.con, c.arg) ELSE sub
    ELSE IF c.verb \in {"move left", "move right"} THEN sub \ {c.con}
    ELSE sub

MarkAfter(mark, c) ==
    IF c.verb = "mark --add move_target" THEN c.con
    ELSE IF c.verb = "unmark move_target" THEN NoWin
    ELSE mark

RECURSIVE Placed(_, _, _)
Placed(sub, mark, cmds) ==
    IF cmds = <<>> THEN sub
    ELSE Placed(PlaceOne(sub, mark, Head(cmds)), MarkAfter(mark, Head(cmds)), Tail(cmds))

StillTiled(sub, T) == {w \in sub : T.leaf[w] = "tiled"}

\* the manager constructed at startup, and where its commands left the windows
Constructed(mc) == mgr = mc.m /\ msSub = Placed({}, NoWin, mc.cmds)

InitManager ==
    /\ InitOrch
    /\ win = [w \in Windows |-> NoWindow]
    /\ options = [excluded |-> {}, layout |-> "MasterStack"]
    /\ msOptions \in MSOptionSets
    /\ InitIdleHistory
    /\ msTree \in StartTrees
    /\ \E focus \in Present(msTree) \cup {NoWin} :
          Constructed(NewMasterStack(msOptions, TreeOf(msTree, focus, FALSE, 0), TRUE))
    /\ msLast = NoCall

InitMS == InitManager /\ msLeft = MaxOps

OrchUnchanged ==
    UNCHANGED <<fhVars, treeVars, options, mainPc, bootTree, listenerArmed, queue, enqCount,
                started, current, orchVars, logVars, serverVars, msOptions>>

NewLayoutManager_Migrates(old, opts, T) ==
    [NewMasterStack(opts, T, TRUE) EXCEPT !.m.maximized = old.maximized,
                                          !.m.stackLayout = old.stackLayout,
                                          !.m.lastFocusedWindowId = old.lastFocusedWindowId]

\* setWorkspaceLayout: state.layoutManager = layout_manager_class(self.conn,
\* workspace, workspaceName, self.options); old is the instance replaced
NewLayoutManager(old, opts, T) == NewMasterStack(opts, T, TRUE)

\* layoutManagerReloader: an exception leaving the call makes
\* setWorkspaceLayout construct a new manager on the same workspace
IfConstructed(fresh, old) == IF MOk(fresh) THEN fresh.m ELSE old
Reloaded(mc, T) ==
    IF MOk(mc) THEN mc.m
    ELSE IfConstructed(NewLayoutManager(mc.m, msOptions, T), mc.m)

ReloadCommands(mc, T) ==
    IF MOk(mc) THEN <<>> ELSE NewLayoutManager(mc.m, msOptions, T).cmds

\* the call made, what it was given, what it sent and how it ended
Record(opName, w, cmdName, index, px, mc) ==
    [op |-> opName, w |-> w, cmd |-> cmdName, index |-> index, px |-> px,
     cmds |-> mc.cmds, exc |-> mc.exc,
     pre |-> [windowIds |-> mgr.windowIds, substackExists |-> mgr.substackExists,
              maximized |-> mgr.maximized]]

\* the compositor carries out the commands of the call, and those of the
\* construction that follows a failed call
Finish(opName, w, cmdName, index, T, mc) ==
    /\ mgr' = Reloaded(mc, T)
    /\ msSub' = Placed(Placed(StillTiled(msSub, T), NoWin, mc.cmds), NoWin,
                       ReloadCommands(mc, T))
    /\ msLast' = Record(opName, w, cmdName, index, T.px, mc)
    /\ msLeft' = msLeft - 1
    /\ OrchUnchanged

\* a window appears on the workspace (created, or moved in): windowAdded
MSWindowAdded(w, kind, nest) ==
    /\ msLeft > 0
    /\ msTree[w] = "absent"
    /\ msTree' = [msTree EXCEPT ![w] = kind]
    /\ LET T == TreeOf(msTree', NoWin, nest, 0)
       IN Finish("windowAdded", w, "-", 0, T, msWindowAdded(NewCall(mgr), T, w))

\* a window leaves the workspace (closed, or moved out): windowRemoved, with
\* the container of the event, whose rect width is px
MSWindowRemoved(w, px) ==
    /\ msLeft > 0
    /\ msTree[w] # "absent"
    /\ msTree[w] = "floating" => px = 0
    /\ msTree' = [msTree EXCEPT ![w] = "absent"]
    /\ LET T == TreeOf(msTree', NoWin, FALSE, px)
       IN Finish("windowRemoved", w, "-", 0, T,
                 msWindowRemoved(NewCall(mgr), T, w, msTree[w] = "floating"))

\* a window's floating state is toggled: windowFloating
MSWindowFloating(w, nest, px) ==
    /\ msLeft > 0
    /\ msTree[w] # "absent"
    /\ IF msTree[w] = "tiled" THEN ~nest ELSE px = 0
    /\ msTree' = [msTree EXCEPT ![w] = IF @ = "tiled" THEN "floating" ELSE "tiled"]
    /\ LET T == TreeOf(msTree', NoWin, nest, px)
       IN Finish("windowFloating", w, "-", 0, T, msWindowFloating(NewCall(mgr), T, w))

\* a window takes the focus: windowFocused
MSWindowFocused(w, px) ==
    /\ msLeft > 0
    /\ msTree[w] # "absent"
    /\ msTree[w] = "floating" => px = 0
    /\ msTree' = msTree
    /\ LET T == TreeOf(msTree, w, FALSE, px)
       IN Finish("windowFocused", w, "-", 0, T, msWindowFocused(NewCall(mgr), T, w))

\* a window is moved inside the workspace: windowMoved
MSWindowMoved(w, px) ==
    /\ msLeft > 0
    /\ msTree[w] # "absent"
    /\ msTree[w] = "floating" => px = 0
    /\ msTree' = msTree
    /\ LET T == TreeOf(msTree, NoWin, FALSE, px)
       IN Finish("windowMoved", w, "-", 0, T, msWindowMoved(NewCall(mgr), T, w))

\* the inputs a call reads; one it does not read is not drawn (the rect width
\* of a floating window, the nesting when no window is pushed)
FocusChoices(cmdName) ==
    IF cmdName \in FocusCommands \cup {"master add", "master remove"}
    THEN Present(msTree) \cup {NoWin} ELSE {NoWin}
IndexChoices(cmdName) == IF cmdName = "move to index" THEN 0..MSWin ELSE {0}
PxChoices(cmdName) == IF cmdName \in {"side toggle", "maximize"} THEN Widths ELSE {0}
NestChoices(cmdName) ==
    IF cmdName \in {"master add", "master remove"} THEN BOOLEAN ELSE {FALSE}

\* a command reaches the manager: onCommand
MSOnCommand(cmdName, focus, index, px, nest) ==
    /\ msLeft > 0
    /\ focus \in FocusChoices(cmdName)
    /\ index \in IndexChoices(cmdName)
    /\ px \in PxChoices(cmdName)
    /\ nest \in NestChoices(cmdName)
    /\ msTree' = msTree
    /\ LET T == TreeOf(msTree, focus, nest, px)
       IN Finish("onCommand", focus, cmdName, index, T,
                 msOnCommand(NewCall(mgr), T, cmdName, index))

\* "layout MasterStack": setWorkspaceLayout constructs the manager anew
MSSetLayout(focus, nest) ==
    /\ msLeft > 0
    /\ focus \in Present(msTree) \cup {NoWin}
    /\ msTree' = msTree
    /\ LET T == TreeOf(msTree, focus, nest, 0)
       IN Finish("__init__", focus, "-", 0, T, NewLayoutManager(mgr, msOptions, T))

NextMS ==
    \/ \E w \in MSWindows, kind \in {"tiled", "floating"}, nest \in BOOLEAN :
          MSWindowAdded(w, kind, nest)
    \/ \E w \in MSWindows, px \in Widths : MSWindowRemoved(w, px)
    \/ \E w \in MSWindows, nest \in BOOLEAN, px \in Widths : MSWindowFloating(w, nest, px)
    \/ \E w \in MSWindows, px \in Widths : MSWindowFocused(w, px)
    \/ \E w \in MSWindows, px \in Widths : MSWindowMoved(w, px)
    \/ \E cmdName \in MSCommands :
          \E focus \in FocusChoices(cmdName), index \in IndexChoices(cmdName),
             px \in PxChoices(cmdName), nest \in NestChoices(cmdName) :
                MSOnCommand(cmdName, focus, index, px, nest)
    \/ \E focus \in Present(msTree) \cup {NoWin}, nest \in BOOLEAN : MSSetLayout(focus, nest)

SpecMS == InitMS /\ [][NextMS]_vars

\* ------------------------------------- the manager, maximizing and toggling
\* The same manager and the same actions, followed further along the calls
\* that meet in toggleMaximize: windows are added, the workspace is
\* maximized and unmaximized, the stack layout is toggled.
MaxToggleOps == 6
ToggleCommands == {"maximize", "toggle"}

InitMax == InitManager /\ msLeft = MaxToggleOps

NextMax ==
    \/ \E w \in MSWindows, kind \in {"tiled", "floating"}, nest \in BOOLEAN :
          MSWindowAdded(w, kind, nest)
    \/ \E cmdName \in ToggleCommands :
          \E focus \in FocusChoices(cmdName), index \in IndexChoices(cmdName),
             px \in PxChoices(cmdName), nest \in NestChoices(cmdName) :
                MSOnCommand(cmdName, focus, index, px, nest)

SpecMax == InitMax /\ [][NextMax]_vars

\* ------------------------------------------------ fake fullscreen, closer
\* The daemon with two workspaces in the tree at startup and the windows on
\* "a", driven by the "layout maximize" binding and by windows moving and
\* closing, for one message more than Spec allows.
MaxFsMsgs == 3
FsTrees ==
    { [w \in Windows |-> IF w = 1 THEN OnA(FALSE) ELSE NoWindow],
      [w \in Windows |-> OnA(FALSE)] }

InitFS ==
    /\ win \in FsTrees
    /\ treeWs = {"a", "b"}
    /\ focused = 1
    /\ options \in [excluded : {{}}, layout : {"MasterStack", "none"}]
    /\ InitDaemon
    /\ InitIdleManager
    /\ InitIdleHistory

FsCanEmit == listenerArmed /\ enqCount < MaxFsMsgs

FsClose(w) ==
    /\ FsCanEmit
    /\ win[w].ws # NoWs
    /\ win' = [win EXCEPT ![w] = NoWindow]
    /\ focused' = IF focused = w THEN NoWin ELSE focused
    /\ UNCHANGED treeWs
    /\ Emit(EventMsg("close", w, NoWs, NoCon, <<>>))

FsMove(w, ws) ==
    /\ FsCanEmit
    /\ win[w].ws # NoWs
    /\ ws \in treeWs
    /\ win' = [win EXCEPT ![w].ws = ws]
    /\ UNCHANGED <<focused, treeWs>>
    /\ Emit(EventMsg("move", w, NoWs, NoCon, <<>>))

FsMaximize ==
    /\ FsCanEmit
    /\ UNCHANGED treeVars
    /\ Emit(EventMsg("binding", NoWin, NoWs, NoCon,
                     << Marked(<<"layout", "maximize">>) >>))

\* the bare legacy form, which handleCommand hands to the manager
FsBareMaximize ==
    /\ FsCanEmit
    /\ UNCHANGED treeVars
    /\ Emit(EventMsg("binding", NoWin, NoWs, NoCon, << Marked(<<"maximize">>) >>))

NextFS ==
    \/ StartThreads
    \/ InitExisting
    \/ Get
    \/ Handle
    \/ \E w \in Windows : FsClose(w)
    \/ \E w \in Windows, ws \in Workspaces : FsMove(w, ws)
    \/ FsMaximize
    \/ FsBareMaximize

SpecFS == InitFS /\ [][NextFS]_vars

\* ================================================================= claims
\* a step of the main thread that ends a handler (or the startup init)
HandlerReturns == mainPc = "handling" /\ mainPc' # "handling"

\* C1: handlers start in the order the messages were put on the queue, whoever
\* put them, and a handler starts only after the handler of the message
\* dequeued before it has returned.
C1_FifoOneAtATime ==
    [][ (current' # current /\ current' # NoMsg) =>
            /\ current = NoMsg
            /\ mainPc = "loop"
            /\ started' = started + 1
            /\ current'.ticket = started' ]_vars

C1_Witness ==
    /\ mainPc = "handling"
    /\ started = 2
    /\ current.type = "command"
    /\ serverPc = "wait"

\* every event put on the queue has been handled, and the loop is between
\* two messages
Settled ==
    /\ mainPc = "loop"
    /\ \A i \in 1..Len(queue) : queue[i].type # "event"

Tracked(ws) == workspaceStates[ws].windowIds

C3_RecoveryRebuilds ==
    \A i \in 1..Len(calls) :
        (calls[i].op = "reload" /\ outcome # "AlgorithmFailure") =>
            LET state == workspaceStates[calls[i].ws]
            IN /\ state.layoutManager # NoMgr
               /\ state.layoutManager.kind = state.layoutName
               /\ state.layoutManager.inst > calls[i].inst

\* C4: after a handler in which a layout-manager call raised, the dispatch
\* loop is still running, whatever kind of message triggered the call and
\* even when the rebuild raised in turn.
C4_LoopSurvivesManagerFailure ==
    (\E i \in 1..Len(calls) : calls[i].op = "reload") => mainPc # "dead"

\* C5: an unknown layout name met while handling a message (a `layout set`
\* from the control channel or a binding, or the configured layout of a
\* workspace init event) fails that operation only; the dispatch loop keeps
\* running.
C5_UnknownLayoutKeepsLoop ==
    (outcome = "ConfigError" /\ calls = <<>> /\ started >= 1) => mainPc # "dead"

\* C6: WorkspaceState and the layout-manager instances change only in a step
\* of the dispatch loop (the startup init or the end of a handler); a step in
\* which a producer thread puts a message or the endpoint answers a client
\* leaves them, and the log of manager calls and compositor commands, as they
\* were, and the reply slots are written by the dispatch loop only.
C6_OnlyDispatchLoopTouchesState ==
    [][ /\ (orchVars' # orchVars) =>
              (mainPc \in {"init", "handling"} /\ mainPc' \in {"loop", "dead"})
        /\ (enqCount' # enqCount \/ serverPc' # serverPc) =>
              UNCHANGED <<orchVars, calls, ipc, slots, mainPc>>
        /\ (slots' # slots) => (mainPc = "handling" /\ current.type = "command")
      ]_vars

C6_Witness ==
    /\ mainPc = "handling"
    /\ current.type = "event"
    /\ queue # <<>>
    /\ queue[1].type = "command"
    /\ serverPc = "wait"
    /\ workspaceStates["a"].layoutManager # NoMgr

\* C7: handling a focus event for a window whose workspace, in the fresh
\* snapshot, has no focused window or another one, changes no WorkspaceState
\* (focusHistory, the manager and its last-focused window included) and calls
\* no manager method.
C7_StaleFocusMutatesNothing ==
    [][ ( /\ mainPc = "handling"
          /\ current.type = "event"
          /\ current.kind = "focus"
          /\ win[current.id].ws # NoWs
          /\ FindFocused(Snapshot, win[current.id].ws) # current.id )
        => /\ workspaceStates' = workspaceStates
           /\ nextInst' = nextInst
           /\ calls' = <<>>
           /\ ipc' = <<>> ]_vars

C7_Witness ==
    /\ outcome = "stale"
    /\ mainPc = "loop"
    /\ workspaceStates["a"].layoutManager.kind = "MasterStack"
    /\ Cardinality(Tracked("a")) = 2

\* the non-empty segments of a text, and each of them sent to the compositor
\* as it came
NonEmpty(text) == SelectSeq(text, LAMBDA seg : seg # <<>>)
SentRaw(segs) == [i \in 1..Len(segs) |-> Cmd(NoWin, segs[i])]
C9_TimeoutOrExactReply ==
    [][ \A t \in Tickets :
          (sent'[t] # sent[t]) =>
             /\ serverPc = "wait" /\ waitSlot = t
             /\ serverPc' = "accept"
             /\ IF slots[t] = <<>>
                THEN sent'[t] = TimeoutReply /\ t \in timedOut'
                ELSE sent'[t] = slots[t][1] /\ timedOut' = timedOut ]_vars

C9_Witness ==
    \E t, u \in Tickets :
        /\ t \in timedOut /\ sent[t] = TimeoutReply
        /\ u \notin timedOut /\ sent[u] # <<>> /\ sent[u] = slots[u][1]

\* C10: a timeout changes nothing on the side of the dispatch loop: the
\* queue, the message being handled, the workspace states and the reply slots
\* stay as they are; the timed-out command is later started in its queue
\* position, and its handler ends with the loop running and the reply put in
\* the abandoned slot.
C10_TimeoutLeavesServerState ==
    [][ /\ (timedOut' # timedOut) =>
              UNCHANGED <<queue, current, mainPc, started, orchVars, slots>>
        /\ (current' # current /\ current'.ticket \in timedOut) =>
              current'.ticket = started + 1
        /\ (HandlerReturns /\ current.type = "command") =>
              /\ mainPc' = "loop"
              /\ Len(slots'[current.ticket]) = Len(slots[current.ticket]) + 1
      ]_vars

C10_Witness ==
    /\ 1 \in timedOut
    /\ slots[1] # <<>>
    /\ started = 2
    /\ mainPc = "loop"

\* C11: while the endpoint waits on the reply slot of one connection it can
\* still accept another connection and enqueue its command.
C11_AcceptsWhileWaiting ==
    (serverPc = "wait" /\ mainPc # "dead" /\ enqCount < MaxMsgs) =>
        ENABLED (\E text \in ClientTexts : ClientSend(text))

\* C12 as stated: nothing is put on the queue before the startup
\* initialization has finished.
C12_Original ==
    enqCount > 0 => mainPc \notin {"boot", "init"}

\* every workspace of the startup snapshot has its WorkspaceState and, unless
\* excluded, its layout manager
BootInitialized(st) ==
    \A ws \in bootTree.treeWs :
        /\ st[ws].exists
        /\ st[ws].isExcluded = (ws \in options.excluded)
        /\ ~st[ws].isExcluded =>
              /\ st[ws].layoutManager # NoMgr
              /\ st[ws].layoutManager.kind = options.layout

\* C12: the listener is armed with the startup snapshot, before the
\* initialization, so events can be put on the queue while it runs; but no
\* message is taken from the queue before every workspace of the snapshot is
\* initialized, and the step that ends the initialization with the loop
\* running leaves each of them with its state and configured manager.
C12_InitBeforeFirstHandler ==
    [][ /\ (mainPc \in {"boot", "init"}) => (started = 0 /\ current = NoMsg)
        /\ (listenerArmed' /\ ~listenerArmed) => (mainPc = "boot" /\ bootTree' = Snapshot)
        /\ (mainPc = "init" /\ mainPc' = "loop") => BootInitialized(workspaceStates')
        /\ (started' # started) => mainPc = "loop" ]_vars

C12_Witness ==
    /\ mainPc = "init"
    /\ listenerArmed
    /\ started = 0
    /\ Len(queue) = 2
    /\ queue[1].type = "event"
    /\ ~workspaceStates["a"].exists

\* C13: handling a new, move or floating event whose window is not in the
\* fresh snapshot changes no WorkspaceState, calls no layout manager and
\* issues no compositor command.
C13_MissingWindowDropped ==
    [][ ( /\ mainPc = "handling"
          /\ current.type = "event"
          /\ current.kind \in {"new", "move", "floating"}
          /\ win[current.id].ws = NoWs )
        => /\ workspaceStates' = workspaceStates
           /\ nextInst' = nextInst
           /\ calls' = <<>>
           /\ ipc' = <<>>
           /\ ~escaped' = ~escaped ]_vars

C13_Witness ==
    /\ outcome = "no window"
    /\ mainPc = "loop"
    /\ workspaceStates["a"].layoutManager.kind = "MasterStack"
    /\ workspaceStates["a"].windowIds # {}

\* the window of a windowAdded call is in the windowIds the manager can see,
\* the window of a windowRemoved call is not
Reflected(call) ==
    /\ call.op = "windowAdded" => call.w \in call.ids
    /\ call.op = "windowRemoved" => call.w \notin call.ids

\* C14 as stated: at every windowAdded or windowRemoved call, the synthetic
\* ones made for a floating transition included, windowIds already reflects
\* the addition or removal.
C14_Original ==
    \A i \in 1..Len(calls) : Reflected(calls[i])

\* C14: at every windowAdded or windowRemoved call made for a window new,
\* a window close or a move between workspaces, windowIds already reflects
\* the change; the synthetic windowAdded or windowRemoved made for a floating
\* transition is called with windowIds as it was before the event, and the
\* handler leaves it so.
C14_IdsUpdatedBeforeCall ==
    [][ (mainPc = "handling" /\ current.type = "event") =>
          \A i \in 1..Len(calls') :
             /\ current.kind \in {"new", "close", "move"} => Reflected(calls'[i])
             /\ (current.kind = "floating"
                   /\ calls'[i].op \in {"windowAdded", "windowRemoved"}) =>
                   /\ calls'[i].ids = workspaceStates[calls'[i].ws].windowIds
                   /\ workspaceStates'[calls'[i].ws].windowIds = calls'[i].ids ]_vars

C14_Witness ==
    /\ Len(calls) = 2
    /\ calls[1].op = "windowRemoved" /\ calls[1].ws = "a"
    /\ calls[2].op = "windowAdded" /\ calls[2].ws = "b"
    /\ calls[1].w = calls[2].w
    /\ calls[1].w \notin calls[1].ids
    /\ calls[2].w \in calls[2].ids
    /\ outcome = "none"

\* ------------------------------------------------ claims on the manager
TiledLeavesMS == {w \in MSWindows : msTree[w] = "tiled"}
NoDuplicates(s) == \A i, j \in 1..Len(s) : s[i] = s[j] => i = j

MSCall == msLeft' # msLeft
\* a call of pushWindow without a position: windowAdded of a tiled window, or
\* windowFloating of a window that has stopped floating
PushStep ==
    /\ MSCall
    /\ msLast'.op \in {"windowAdded", "windowFloating"}
    /\ msTree'[msLast'.w] = "tiled"
    /\ msLast'.exc = "none"
\* the remembered last-focused window is in the tree and in windowIds
LastFocusedKnown ==
    /\ mgr.lastFocusedWindowId # NoWin
    /\ msTree'[mgr.lastFocusedWindowId] # "absent"
    /\ IndexOf(mgr.windowIds, mgr.lastFocusedWindowId) >= 0

\* C16: pushWindow with no explicit position inserts the new window at the
\* list index of the remembered last-focused window, which moves one place
\* down; if no last-focused window is remembered, or it is not found in the
\* workspace tree, or it is not in windowIds, the new window is inserted at
\* index 0 and becomes the master.
C16_InsertsAtLastFocused ==
    [][ PushStep =>
          mgr'.windowIds =
            InsertAt(mgr.windowIds,
                     IF LastFocusedKnown
                     THEN IndexOf(mgr.windowIds, mgr.lastFocusedWindowId) ELSE 0,
                     msLast'.w) ]_vars

\* C16 as stated: the new window goes immediately after the last-focused one
C16_Original ==
    [][ PushStep =>
          mgr'.windowIds =
            InsertAt(mgr.windowIds,
                     IF LastFocusedKnown
                     THEN IndexOf(mgr.windowIds, mgr.lastFocusedWindowId) + 1 ELSE 0,
                     msLast'.w) ]_vars

C16_Witness ==
    /\ msLast.op = "windowAdded"
    /\ msLast.exc = "none"
    /\ Len(mgr.windowIds) = 3
    /\ IndexOf(mgr.windowIds, msLast.w) = 1
    /\ mgr.lastFocusedWindowId # NoWin
    /\ IndexOf(mgr.windowIds, mgr.lastFocusedWindowId) = 2

\* a command that calls moveWindowToIndex(w, i) with w at index i already
SameIndexMove ==
    /\ MSCall
    /\ msLast'.op = "onCommand"
    /\ msLast'.w # NoWin
    /\ IndexOf(mgr.windowIds, msLast'.w) >= 0
    /\ \/ /\ msLast'.cmd = "move to index"
          /\ msLast'.index = IndexOf(mgr.windowIds, msLast'.w)
       \/ /\ msLast'.cmd = "move to master"
          /\ IndexOf(mgr.windowIds, msLast'.w) = 0

\* C17: moveWindowToIndex(w, i) called when w is already at index i issues no
\* compositor command and leaves windowIds unchanged, maximized or not.
C17_SameIndexIsNoop ==
    [][ SameIndexMove =>
          /\ msLast'.exc = "none"
          /\ msLast'.cmds = <<>>
          /\ mgr'.windowIds = mgr.windowIds ]_vars

C17_Witness ==
    /\ msLast.op = "onCommand"
    /\ msLast.cmd = "move to index"
    /\ msLast.index = 1
    /\ msLast.pre.windowIds = mgr.windowIds
    /\ msLast.pre.maximized
    /\ IndexOf(mgr.windowIds, msLast.w) = 1
    /\ msLast.cmds = <<>>

\* the second of two successive toggleMaximize calls, the first made
\* unmaximized with at least two windows, neither raising
SecondToggle ==
    /\ MSCall
    /\ msLast.op = "onCommand" /\ msLast.cmd = "maximize" /\ msLast.exc = "none"
    /\ ~msLast.pre.maximized
    /\ Len(msLast.pre.windowIds) >= 2
    /\ msLast'.op = "onCommand" /\ msLast'.cmd = "maximize" /\ msLast'.exc = "none"
ResizesTo(cmds, con, px) ==
    \E i \in 1..Len(cmds) :
        cmds[i] = MCmd(con, "resize set width px", px)

\* C18: starting unmaximized with at least two tracked windows, two successive
\* toggleMaximize calls leave maximized false, windowIds unchanged and
\* substackExists as it was, and the second call resizes the master to the
\* pixel width the first call recorded.
C18_TwoToggles ==
    [][ SecondToggle =>
          /\ ~mgr'.maximized
          /\ mgr'.windowIds = msLast.pre.windowIds
          /\ mgr'.substackExists = msLast.pre.substackExists
          /\ ResizesTo(msLast'.cmds, At(mgr'.windowIds, 0), msLast.px) ]_vars

\* C19: windowAdded of a non-floating window w on a manager whose windowIds
\* is empty makes windowIds <<w>> and sends no compositor command.
C19_FirstWindow ==
    [][ (/\ MSCall
         /\ msLast'.op = "windowAdded"
         /\ msTree'[msLast'.w] = "tiled"
         /\ mgr.windowIds = <<>>) =>
          /\ msLast'.exc = "none"
          /\ mgr'.windowIds = <<msLast'.w>>
          /\ msLast'.cmds = <<>> ]_vars

C19_Witness ==
    /\ msLast.op = "windowAdded"
    /\ msLast.pre.windowIds = <<>>
    /\ mgr.windowIds = <<msLast.w>>
    /\ msLast.cmds = <<>>
    /\ mgr.floatingWindowIds # {}

\* the window at index 0 leaves the list and at least two windows remain
MasterPopped ==
    /\ MSCall
    /\ \/ msLast'.op = "windowRemoved" /\ msTree[msLast'.w] = "tiled"
       \/ msLast'.op = "windowFloating" /\ msTree'[msLast'.w] = "floating"
    /\ Len(mgr.windowIds) >= 3
    /\ At(mgr.windowIds, 0) = msLast'.w

\* C20: when the window at index 0 is removed and at least two windows
\* remain, the former index-1 window becomes index 0 with the order of the
\* rest preserved, and a resize command sets the new master's width to the
\* removed master's last pixel width when that width is positive.
C20_MasterRemoved ==
    [][ MasterPopped =>
          /\ msLast'.exc = "none"
          /\ mgr'.windowIds = Tail(mgr.windowIds)
          /\ msLast'.px > 0 =>
                ResizesTo(msLast'.cmds, At(mgr.windowIds, 1), msLast'.px) ]_vars

C20_Witness ==
    /\ msLast.op = "windowRemoved"
    /\ msLast.exc = "none"
    /\ Len(msLast.pre.windowIds) = 3
    /\ Head(msLast.pre.windowIds) = msLast.w
    /\ mgr.windowIds = Tail(msLast.pre.windowIds)
    /\ msLast.px > 0
    /\ ResizesTo(msLast.cmds, At(mgr.windowIds, 0), msLast.px)

\* ------------------------------------------ claims on toggling and commands
\* a step that is one onCommand call with the given command
CommandStep(cmdName) ==
    /\ MSCall
    /\ msLast'.op = "onCommand"
    /\ msLast'.cmd = cmdName
\* the cycle of stack layouts as the documentation gives it
CycleNext(l) ==
    CASE l = "splitv" -> "splith"
      [] l = "splith" -> "stacking"
      [] l = "stacking" -> "tabbed"
      [] l = "tabbed" -> "splitv"

\* C21: every toggleStackLayout call advances stackLayout exactly one step in
\* the cycle splitv, splith, stacking, tabbed, splitv, whether or not the
\* manager is maximized, so four calls return stackLayout to the value it had.
C21_ToggleCycles ==
    [][ CommandStep("toggle") =>
          /\ msLast'.exc = "none"
          /\ mgr'.stackLayout = CycleNext(mgr.stackLayout)
          /\ mgr'.stackLayout # mgr.stackLayout
          /\ CycleNext(CycleNext(CycleNext(mgr'.stackLayout))) = mgr.stackLayout ]_vars

C21_Witness ==
    /\ msLast.op = "onCommand"
    /\ msLast.cmd = "toggle"
    /\ msLast.exc = "none"
    /\ msLast.pre.maximized
    /\ mgr.maximized
    /\ mgr.stackLayout = "splitv"
    /\ msLeft <= MaxToggleOps - 4

\* a toggle made while maximized changes the one field and sends nothing
LayoutToggleSilent ==
    (CommandStep("toggle") /\ mgr.maximized) =>
        /\ msLast'.exc = "none"
        /\ msLast'.cmds = <<>>
        /\ mgr' = [mgr EXCEPT !.stackLayout = CycleNext(@)]
SideToggleSilent ==
    (CommandStep("side toggle") /\ mgr.maximized) =>
        /\ msLast'.exc = "none"
        /\ msLast'.cmds = <<>>
        /\ mgr' = [mgr EXCEPT !.stackSide = IF @ = "left" THEN "right" ELSE "left"]

\* C22: while maximized is true, toggleStackLayout and toggleStackSide each
\* change only their own field (stackLayout, stackSide) and issue no
\* compositor command.
C22_MaximizedTogglesSilent ==
    [][ LayoutToggleSilent /\ SideToggleSilent ]_vars

\* an onCommand call, with any command
AnyCommandStep == MSCall /\ msLast'.op = "onCommand"
\* the cases in which the focus-dependent commands have nothing to do: the
\* focused window is not tracked, the index is out of range or is the
\* window's own, or fewer than two windows are tracked
NothingToMove ==
    /\ msLast'.cmd \in FocusCommands
    /\ \/ msLast'.w = NoWin
       \/ IndexOf(mgr.windowIds, msLast'.w) < 0
       \/ Len(mgr.windowIds) < 2
       \/ /\ msLast'.cmd = "move to index"
          /\ \/ msLast'.index >= Len(mgr.windowIds)
             \/ msLast'.index = IndexOf(mgr.windowIds, msLast'.w)

\* C23: no master/stack operation reachable from onCommand raises because of
\* an index outside the window list, in any reachable state, an empty window
\* list and an existing substack included; with too few windows, a same-index
\* move, an out-of-range "move to index" or an untracked focused window the
\* operation returns early and leaves windowIds unchanged.
C23_NoIndexError ==
    [][ AnyCommandStep =>
          /\ msLast'.exc # "IndexError"
          /\ NothingToMove =>
                /\ msLast'.exc = "none"
                /\ msLast'.cmds = <<>>
                /\ mgr'.windowIds = mgr.windowIds ]_vars

\* the model a MasterStack manager derives from the configuration and the
\* workspace snapshot alone: the tiled leaves in tree order with the focused
\* one first, the floating leaves, and the configured knobs
FreshIds(leaf, focus) ==
    IF focus # NoWin /\ leaf[focus] = "tiled"
    THEN <<focus>> \o SeqRemove(LeavesFrom([leaf |-> leaf], 1), focus)
    ELSE LeavesFrom([leaf |-> leaf], 1)
FreshModel(opts, leaf, focus) ==
    [windowIds |-> FreshIds(leaf, focus),
     floatingWindowIds |-> {w \in MSWindows : leaf[w] = "floating"},
     substackExists |-> /\ opts.stackLayout = "splitv"
                        /\ opts.visibleStackLimit > 0
                        /\ Len(FreshIds(leaf, focus)) > opts.visibleStackLimit,
     lastFocusedWindowId |-> NoWin,
     maximized |-> FALSE,
     masterWidthBeforeMaximize |-> 0,
     lastKnownMasterWidth |-> 0,
     masterWidth |-> opts.masterWidth,
     stackSide |-> opts.stackSide,
     stackLayout |-> opts.stackLayout,
     visibleStackLimit |-> opts.visibleStackLimit,
     masterCount |-> opts.masterCount]

\* C24: setWorkspaceLayout with an algorithm name replaces the workspace's
\* layout manager by a newly constructed instance whose model is derived only
\* from the workspace snapshot and the configuration: nothing of the old
\* instance (window order, maximized flag, toggled stackLayout or stackSide,
\* masterCount, last-focused window, substack flag) carries over.
C24_NothingCarriesOver ==
    [][ (MSCall /\ msLast'.op = "__init__") =>
          /\ msLast'.exc = "none"
          /\ mgr' = FreshModel(msOptions, msTree', msLast'.w) ]_vars

C24_Witness ==
    /\ msLast.op = "__init__"
    /\ msLast.exc = "none"
    /\ msLast.pre.maximized
    /\ ~mgr.maximized
    /\ Len(mgr.windowIds) = 3
    /\ msLast.pre.windowIds # mgr.windowIds
    /\ mgr.substackExists
    /\ ~msLast.pre.substackExists

\* ------------------------------------------- claims on commands and bindings
\* the step in which the handler of a control-channel request returns
CommandHandled == HandlerReturns /\ current.type = "command"
\* the segments of the noted calls, and the results of the noted calls one
\* after the other
Segs(h) == [i \in 1..Len(h) |-> h[i].seg]
RECURSIVE Joined(_)
Joined(h) == IF h = <<>> THEN <<>> ELSE Head(h).res \o Joined(Tail(h))
JoinedOrOk(h) == IF Joined(h) = <<>> THEN << <<"OK">> >> ELSE Joined(h)

\* C25 as stated: every non-empty sub-command of a request is passed to
\* handleCommand, left to right, and the reply is their results joined.
C25_Original ==
    [][ CommandHandled =>
          /\ Segs(handled') = NonEmpty(current.text)
          /\ slots'[current.ticket] =
                Append(slots[current.ticket], JoinedOrOk(handled')) ]_vars

\* C25: a control-channel request of ';'-joined sub-commands is handled as
\* one queue message with one reply.  Its non-empty sub-commands are passed to
\* handleCommand one at a time, left to right, until one raises: the
\* sub-commands after it are not handled and the reply is the failure line.
\* When none raises all are handled and the reply is their results in order,
\* joined by newline (sub-commands without a result add nothing), or "OK"
\* when there is no result.
C25_ChainedCommands ==
    [][ CommandHandled =>
          /\ Len(handled') <= Len(NonEmpty(current.text))
          /\ Segs(handled') = SubSeq(NonEmpty(current.text), 1, Len(handled'))
          /\ \A i \in 1..(Len(handled') - 1) : handled'[i].exc = "none"
          /\ Len(slots'[current.ticket]) = Len(slots[current.ticket]) + 1
          /\ IF outcome' = "none"
             THEN /\ Len(handled') = Len(NonEmpty(current.text))
                  /\ slots'[current.ticket] =
                        Append(slots[current.ticket], JoinedOrOk(handled'))
             ELSE /\ handled' # <<>>
                  /\ handled'[Len(handled')].exc = outcome'
                  /\ slots'[current.ticket] =
                        Append(slots[current.ticket], FailedReply) ]_vars

C25_Witness ==
    /\ mainPc = "loop"
    /\ outcome = "none"
    /\ Segs(handled) = << <<"layout", "set", "tabbed">>, <<"stack", "toggle">> >>
    /\ started \in Tickets
    /\ slots[started] = << Joined(handled) >>
    /\ Len(Joined(handled)) = 2

\* the step in which the handler of a binding event returns
BindingHandled == HandlerReturns /\ current.type = "event" /\ current.kind = "binding"
\* the marked segments of a text without their marker, and its other
\* non-empty segments as compositor commands
Unmarked(text) ==
    LET marked == SelectSeq(text, HasMarker)
    IN [i \in 1..Len(marked) |-> SubSeq(marked[i], 3, Len(marked[i]))]
PassedOn(text) ==
    LET others == SelectSeq(text, LAMBDA seg : seg # <<>> /\ ~HasMarker(seg))
    IN [i \in 1..Len(others) |-> Cmd(NoWin, others[i])]
IsPassedOn(text, c) == \E i \in 1..Len(PassedOn(text)) : PassedOn(text)[i] = c

\* C26: a binding event whose command text does not start with the marker
\* "nop layman" causes no handleCommand call, no compositor command and no
\* state change; for one that does, the ';'-separated segments are handled in
\* order, the marked segments as internal commands and the other non-empty
\* segments sent unchanged to the compositor.
C26_BindingRouting ==
    [][ BindingHandled =>
          IF HasMarker(Head(current.text))
          THEN /\ Segs(handled') = Unmarked(current.text)
               /\ SelectSeq(ipc', LAMBDA c : IsPassedOn(current.text, c))
                     = PassedOn(current.text)
          ELSE /\ handled' = <<>>
               /\ ipc' = <<>>
               /\ calls' = <<>>
               /\ UNCHANGED orchVars
               /\ mainPc' = "loop" ]_vars

\* a request that is one move or focus command, bare or "window"-prefixed
BareOf(seg) == IF StartsWith(seg, "window") THEN Tail(seg) ELSE seg
IsBind(seg, word) == seg # <<>> /\ StartsWith(BareOf(seg), word)
BindRequest ==
    /\ CommandHandled
    /\ Len(current.text) = 1
    /\ IsBind(current.text[1], "move") \/ IsBind(current.text[1], "focus")
\* the focused workspace has a manager that overrides the command's binds
Overrides(seg) ==
    LET ws == findFocusedWorkspace(Snapshot)
    IN /\ ws # NoWs
       /\ workspaceStates[ws].exists
       /\ workspaceStates[ws].layoutManager # NoMgr
       /\ IF IsBind(seg, "move")
          THEN overridesMoveBinds(workspaceStates[ws].layoutManager.kind)
          ELSE overridesFocusBinds(workspaceStates[ws].layoutManager.kind)
ManagerCalled == \E i \in 1..Len(calls') : calls'[i].op = "onCommand"
SentToCompositor(seg) ==
    ipc' = << Cmd(NoWin, seg) >> \/ ipc' = << Cmd(NoWin, BareOf(seg)) >>
HasState == findFocusedWorkspace(Snapshot) # NoWs =>
               workspaceStates[findFocusedWorkspace(Snapshot)].exists

FloatingHandled ==
    /\ HandlerReturns
    /\ current.type = "event"
    /\ current.kind = "floating"
    /\ win[current.id].ws # NoWs
    /\ workspaceStates[win[current.id].ws].exists
    /\ ~workspaceStates[win[current.id].ws].isExcluded
    /\ workspaceStates[win[current.id].ws].layoutManager # NoMgr
CallsOf(cs, ops) == SelectSeq(cs, LAMBDA c : c.op \in ops)

\* C28: for a floating event on a non-excluded workspace whose manager has
\* supportsFloating false, the orchestrator never calls windowFloating: it
\* calls windowRemoved when the window is now floating and windowAdded when it
\* is now tiled.  When supportsFloating is true it calls windowFloating and
\* neither of the other two.
C28_FloatingTranslated ==
    [][ FloatingHandled =>
          LET ws == win[current.id].ws
              m == workspaceStates[ws].layoutManager
          IN /\ Len(CallsOf(calls', {"windowFloating", "windowAdded", "windowRemoved"})) = 1
             /\ calls'[1].w = current.id
             /\ calls'[1].ws = ws
             /\ calls'[1].inst = m.inst
             /\ calls'[1].op =
                   IF m.kind = "MasterStack" THEN "windowFloating"
                   ELSE IF win[current.id].floating THEN "windowRemoved"
                   ELSE "windowAdded" ]_vars

C28_Witness ==
    /\ mainPc = "loop"
    /\ outcome = "none"
    /\ Len(calls) = 1
    /\ calls[1].op = "windowRemoved"
    /\ calls[1].kind = "none"
    /\ calls[1].ws = "a"
    /\ win[calls[1].w].floating
    /\ win[calls[1].w].ws = "a"
    /\ calls[1].w \in workspaceStates["a"].windowIds

\* ------------------------------------------------------------------- C29
CloseHandled == HandlerReturns /\ current.type = "event" /\ current.kind = "close"
\* the three fake-fullscreen fields of a workspace state
FakeFields(s) == <<s.fakeFullscreen, s.fakeFullscreenWindowId, s.savedStackLayout>>
\* the state holds window w as its fake-fullscreen window
FakeFullscreenOf(s, w) == s.exists /\ s.fakeFullscreen /\ s.fakeFullscreenWindowId = w
\* C29: when the close of a window has been handled, every workspace state
\* that held it as its fake-fullscreen window has fakeFullscreen false and
\* fakeFullscreenWindowId and savedStackLayout cleared, and every other
\* workspace state keeps the three fields as they were.
C29_CloseClearsFakeFullscreen ==
    [][CloseHandled =>
         \A n \in Workspaces :
            IF FakeFullscreenOf(workspaceStates[n], current.id)
            THEN FakeFields(workspaceStates'[n]) = <<FALSE, NoWin, "-">>
            ELSE workspaceStates[n].exists =>
                    FakeFields(workspaceStates'[n]) = FakeFields(workspaceStates[n])]_vars

\* ------------------------------------------------------------------- C30
\* the list entries from index visibleStackLimit on
BeyondLimit(m) ==
    {m.windowIds[k] : k \in (m.visibleStackLimit + 1)..Len(m.windowIds)}
\* the substack container holds what the list says it holds
BoundaryRight(m, sub) == sub = IF m.substackExists THEN BeyondLimit(m) ELSE {}
MoveCommands == {"move up", "move down", "move to master", "move to index"}
\* a call that is one pushWindow, popWindow or moveWindowToIndex changes the
\* list of an unmaximized manager and returns, and a substack exists
BoundaryStep ==
    /\ ~mgr.maximized
    /\ msLast'.exc = "none"
    /\ mgr'.substackExists
    /\ mgr'.windowIds # mgr.windowIds
    /\ \/ msLast'.op \in {"windowAdded", "windowRemoved", "windowFloating"}
       \/ msLast'.op = "onCommand" /\ msLast'.cmd \in MoveCommands
\* C30: when a substack exists after a pushWindow, popWindow or
\* moveWindowToIndex that started with the boundary in place has returned,
\* the windows inside the substack container are exactly the list entries
\* from index visibleStackLimit on, so that visibleStackLimit entries are
\* kept outside it.
C30_BoundaryKept ==
    [][(BoundaryStep /\ BoundaryRight(mgr, msSub)) => msSub' = BeyondLimit(mgr')]_vars

\* ------------------------------------------------------------------- C31
\* the leaves of the workspace with the focused leaf first
FocusedFirst(found, focus) ==
    IF focus # NoWin /\ IndexOf(found, focus) >= 0
    THEN <<focus>> \o SeqRemove(found, focus)
    ELSE found
\* a call that runs arrangeWindows on a workspace with leaves: a construction,
\* a master add below the number of windows, a master remove above one master
ArrangeStep ==
    /\ leaves(TreeOf(msTree', NoWin, FALSE, 0)) # <<>>
    /\ \/ msLast'.op = "__init__"
       \/ /\ msLast'.op = "onCommand"
          /\ \/ msLast'.cmd = "master add" /\ mgr.masterCount < Len(mgr.windowIds)
             \/ msLast'.cmd = "master remove" /\ mgr.masterCount > 1
\* C31: arrangeWindows, from any state of the manager, returns without raising
\* and leaves windowIds the leaves of the workspace, the focused leaf first
\* and the others in tree order.
C31_ArrangeRebuildsList ==
    [][ArrangeStep =>
          /\ msLast'.exc = "none"
          /\ mgr'.windowIds =
               FocusedFirst(leaves(TreeOf(msTree', NoWin, FALSE, 0)), msLast'.w)]_vars

\* ------------------------------------------------------------------- C32
MasterStep(cmdName) == msLast'.op = "onCommand" /\ msLast'.cmd = cmdName
SetOf(s) == {s[k] : k \in 1..Len(s)}
\* master add and master remove change masterCount by one inside the bounds
\* and not at all outside them
MasterCountStepped ==
    /\ MasterStep("master add") =>
          mgr'.masterCount = IF mgr.masterCount < Len(mgr.windowIds)
                             THEN mgr.masterCount + 1 ELSE mgr.masterCount
    /\ MasterStep("master remove") =>
          mgr'.masterCount = IF mgr.masterCount > 1
                             THEN mgr.masterCount - 1 ELSE mgr.masterCount
\* masterCount is at least 1 and, once a window is tracked, at most the number
\* of tracked windows
MasterCountInRange(m) ==
    /\ m.masterCount >= 1
    /\ m.windowIds # <<>> => m.masterCount <= Len(m.windowIds)
\* C32: master add raises masterCount by one only below the number of tracked
\* windows and master remove lowers it by one only above 1; after every call
\* masterCount is within 1 and the number of tracked windows; master add and
\* master remove leave the set of tracked windows as it was.
C32_MasterCountBounded ==
    [][ /\ MasterCountStepped
        /\ MasterCountInRange(mgr')
        /\ (MasterStep("master add") \/ MasterStep("master remove")) =>
              SetOf(mgr'.windowIds) = SetOf(mgr.windowIds) ]_vars

\* ------------------------------------------------------------------- C33
\* the list with w taken out and put back at index t
MovedTo(ids, w, t) == InsertAt(SeqRemove(ids, w), t, w)
\* the index a move command aims at, or -1 when the command is no such move
TargetOf(cmdName, index, sourceIndex, n) ==
    IF cmdName = "move to index" THEN index
    ELSE IF cmdName = "move to master" THEN 0
    ELSE IF cmdName = "move up" THEN (sourceIndex - 1 + n) % n
    ELSE IF cmdName = "move down" THEN (sourceIndex + 1) % n
    ELSE 0 - 1
\* a move command for a tracked focused window, aimed at another index of the
\* list
MoveStep ==
    /\ msLast'.op = "onCommand"
    /\ msLast'.w # NoWin
    /\ IndexOf(mgr.windowIds, msLast'.w) >= 0
    /\ LET t == TargetOf(msLast'.cmd, msLast'.index,
                         IndexOf(mgr.windowIds, msLast'.w), Len(mgr.windowIds))
       IN t >= 0 /\ t < Len(mgr.windowIds) /\ t # IndexOf(mgr.windowIds, msLast'.w)
\* C33: moveWindowToIndex(w, t), for w tracked at another index and t inside
\* the list, leaves w at index t and the other windows in their order;
\* moveWindowRelative(w, d) is that move with t = (index of w + d) mod length.
C33_MovePlacesWindow ==
    [][MoveStep =>
          mgr'.windowIds =
             MovedTo(mgr.windowIds, msLast'.w,
                     TargetOf(msLast'.cmd, msLast'.index,
                              IndexOf(mgr.windowIds, msLast'.w),
                              Len(mgr.windowIds)))]_vars

\* ----------------------------------------------------------- focus history
\* One FocusHistory object alone, driven by push, previous and remove calls
\* in any order.  It starts empty or full: max_size windows focused one
\* after the other, the last one focused first.
MaxHistoryOps == 5
HistoryIds == {1, 2, 3, max_size + 1}
FullHistory == [entries |-> [i \in 1..max_size |-> max_size + 1 - i], idx |-> 0]

InitFH ==
    /\ win = [w \in Windows |-> NoWindow]
    /\ treeWs = {"a"}
    /\ focused = NoWin
    /\ options = [excluded |-> {}, layout |-> "MasterStack"]
    /\ InitDaemon
    /\ InitIdleManager
    /\ history \in {NewFocusHistory, FullHistory}
    /\ fhLast = NoHistoryCall
    /\ fhLeft = MaxHistoryOps

HistoryCall(op, w, h, ret) ==
    /\ history' = h
    /\ fhLast' = [op |-> op, w |-> w, ret |-> ret, pre |-> history]
    /\ fhLeft' = fhLeft - 1
    /\ UNCHANGED <<msVars, treeVars, options, mainPc, bootTree, listenerArmed, queue,
                   enqCount, started, current, orchVars, logVars, serverVars>>

HistoryPush(w) ==
    /\ fhLeft > 0
    /\ HistoryCall("push", w, FHpush(history, w), NoWin)

HistoryPrevious ==
    /\ fhLeft > 0
    /\ HistoryCall("previous", NoWin, FHprevious(history).h, FHprevious(history).id)

HistoryRemove(w) ==
    /\ fhLeft > 0
    /\ HistoryCall("remove", w, FHremove(history, w), NoWin)

NextFH ==
    \/ \E w \in HistoryIds : HistoryPush(w)
    \/ HistoryPrevious
    \/ \E w \in HistoryIds : HistoryRemove(w)

SpecFH == InitFH /\ [][NextFH]_vars

\* ------------------------------------------------------------------- C34
NoRepeat(s) == \A i, j \in 1..Len(s) : s[i] = s[j] => i = j
HistoryBounded(h) == NoRepeat(h.entries) /\ Len(h.entries) <= max_size
\* after push(w), w is entry 0 and the cursor is on it
PushRestarts ==
    fhLast'.op = "push" =>
       /\ history'.entries # <<>>
       /\ Head(history'.entries) = fhLast'.w
       /\ history'.idx = 0
\* previous() returns the entry behind the cursor and moves the cursor onto
\* it, or returns nothing and leaves the cursor on the oldest entry
PreviousSteps ==
    fhLast'.op = "previous" =>
       IF history.idx + 1 < Len(history.entries)
       THEN /\ fhLast'.ret = history.entries[history.idx + 2]
            /\ history'.idx = history.idx + 1
            /\ history'.entries = history.entries
       ELSE fhLast'.ret = NoWin /\ history' = history
\* C34: under any sequence of push, previous and remove calls the history
\* holds no ID twice and at most max_size IDs; after push(w), w is entry 0
\* and navigation restarts from it; previous() returns the entry one step
\* further back, and nothing, without moving, once the oldest is reached.
C34_HistoryNavigation ==
    [][HistoryBounded(history') /\ PushRestarts /\ PreviousSteps]_vars

\* ------------------------------------------------------------------- C35
\* C35: the dispatch loop writes to the reply slot of a command exactly once,
\* when the command's handler finishes: the command's result when handling
\* returned, the failure line when it raised; no slot is written at any
\* other time, and none ever holds two values.
C35_OneReplyPerCommand ==
    [][ /\ \A t \in Tickets :
             /\ Len(slots'[t]) <= 1
             /\ (slots'[t] # slots[t]) => (CommandHandled /\ current.ticket = t)
        /\ CommandHandled =>
              slots'[current.ticket] =
                 << IF outcome' = "none" THEN JoinedOrOk(handled') ELSE FailedReply >>
      ]_vars

C35_Witness ==
    /\ mainPc = "loop"
    /\ started = 2
    /\ \E t, u \in Tickets :
          /\ slots[t] = << FailedReply >>
          /\ Len(slots[u]) = 1
          /\ slots[u] # << FailedReply >>

\* ------------------------------------------------------------------- C36
\* no window ID is recorded by two workspace states
OneWorkspacePerWindow(st) ==
    \A w \in Windows : \A x, y \in Workspaces :
        (w \in st[x].windowIds /\ w \in st[y].windowIds) => x = y
\* the handler of a move event that finds the window on a workspace other
\* than the one whose state records it
MoveBetween ==
    /\ HandlerReturns
    /\ current.type = "event" /\ current.kind = "move"
    /\ win[current.id].ws # NoWs
    /\ workspaceStates[win[current.id].ws].exists
    /\ StateOf(workspaceStates, current.id) # NoWs
    /\ StateOf(workspaceStates, current.id) \in treeWs
    /\ StateOf(workspaceStates, current.id) # win[current.id].ws
\* C36: a window ID is in the windowIds of at most one WorkspaceState, and
\* the handler of a move between workspaces takes the ID out of the source
\* state and puts it into the destination state.
C36_OneStatePerWindow ==
    [][ /\ OneWorkspacePerWindow(workspaceStates')
        /\ MoveBetween =>
              /\ current.id \notin
                    workspaceStates'[StateOf(workspaceStates, current.id)].windowIds
              /\ current.id \in workspaceStates'[win[current.id].ws].windowIds
      ]_vars

\* ------------------------------------------------- the manager behind the queue
\* The manager of one workspace as the daemon drives it: the compositor
\* changes the workspace and puts the event on the queue, a client puts
\* "layout set MasterStack" on it, and the dispatch loop takes one message at a
\* time and makes the call with the tree as it is when the handler runs.
MaxLagOps == 4
MaxLagQueue == 2

LagRest ==
    UNCHANGED <<fhVars, treeVars, options, mainPc, bootTree, listenerArmed, started,
                current, orchVars, logVars, serverVars, msOptions>>

InitLag == InitManager /\ msLeft = MaxLagOps

\* the compositor's side: the tree changes and the event is queued
LagCanEmit == Len(queue) < MaxLagQueue /\ msLeft > Len(queue)

LagEmit(leaf, m) ==
    /\ msTree' = leaf
    /\ Put(m)
    /\ UNCHANGED <<mgr, msLast, msSub, msLeft>>
    /\ LagRest

LagCreated(w) ==
    /\ LagCanEmit
    /\ msTree[w] = "absent"
    /\ LagEmit([msTree EXCEPT ![w] = "tiled"], EventMsg("new", w, NoWs, NoCon, <<>>))

LagFloating(w) ==
    /\ LagCanEmit
    /\ msTree[w] # "absent"
    /\ LagEmit([msTree EXCEPT ![w] = IF @ = "tiled" THEN "floating" ELSE "tiled"],
               EventMsg("floating", w, NoWs, NoCon, <<>>))

LagSetLayout ==
    /\ LagCanEmit
    /\ LagEmit(msTree, CommandMsg(<< <<"layout", "set", "MasterStack">> >>))

\* the dispatch loop's side: the call the handler of message m makes on the
\* manager; an event whose window is gone from the tree is dropped
LagCall(m, T) ==
    IF m.type = "command" THEN NewLayoutManager(mgr, msOptions, T)
    ELSE IF T.leaf[m.id] = "absent" THEN NewCall(mgr)
    ELSE IF m.kind = "new" THEN msWindowAdded(NewCall(mgr), T, m.id)
    ELSE msWindowFloating(NewCall(mgr), T, m.id)

LagOp(m, T) ==
    IF m.type = "command" THEN "__init__"
    ELSE IF T.leaf[m.id] = "absent" THEN "-"
    ELSE IF m.kind = "new" THEN "windowAdded"
    ELSE "windowFloating"

LagFinish(opName, w, T, mc) ==
    /\ mgr' = Reloaded(mc, T)
    /\ msSub' = Placed(Placed(StillTiled(msSub, T), NoWin, mc.cmds), NoWin,
                       ReloadCommands(mc, T))
    /\ msLast' = Record(opName, w, "-", 0, 0, mc)
    /\ msLeft' = msLeft - 1
    /\ queue' = Tail(queue)
    /\ UNCHANGED <<msTree, enqCount>>
    /\ LagRest

LagHandle ==
    /\ queue # <<>>
    /\ msLeft > 0
    /\ LagFinish(LagOp(Head(queue), TreeOf(msTree, NoWin, FALSE, 0)), Head(queue).id,
                 TreeOf(msTree, NoWin, FALSE, 0),
                 LagCall(Head(queue), TreeOf(msTree, NoWin, FALSE, 0)))

NextLag ==
    \/ \E w \in MSWindows : LagCreated(w)
    \/ \E w \in MSWindows : LagFloating(w)
    \/ LagSetLayout
    \/ LagHandle

SpecLag == InitLag /\ [][NextLag]_vars

\* ------------------------------------------------------------------- C37
\* C37: the manager's windowIds never holds the same ID twice and is always
\* disjoint from floatingWindowIds.
C37_ListsDisjoint ==
    /\ NoRepeat(mgr.windowIds)
    /\ SetOf(mgr.windowIds) \cap mgr.floatingWindowIds = {}

\* ------------------------------------------------------------------- C38
\* a substack is due: not maximized, the stack is splitv, and more windows
\* are tracked than the visible stack takes
SubstackDue(m) ==
    /\ ~m.maximized
    /\ m.stackLayout = "splitv"
    /\ m.visibleStackLimit > 0
    /\ Len(m.windowIds) > m.visibleStackLimit
\* C38: after every operation of the manager that returns, substackExists is
\* true exactly when the manager is not maximized, the stack layout is
\* splitv, visibleStackLimit is positive and more than visibleStackLimit
\* windows are tracked; it is false whenever maximized is true.
C38_SubstackFlag ==
    msLast.exc = "none" =>
       /\ mgr.substackExists <=> SubstackDue(mgr)
       /\ mgr.maximized => ~mgr.substackExists

\* ------------------------------------------------------------------- C39
\* C39: on a workspace run by MasterStack, WorkspaceState.fakeFullscreen and
\* the manager's maximized flag agree whenever no handler is running.
C39_FlagsAgree ==
    mainPc = "loop" =>
       \A ws \in Workspaces :
          (workspaceStates[ws].exists
           /\ workspaceStates[ws].layoutManager.kind = "MasterStack") =>
             workspaceStates[ws].fakeFullscreen
                = workspaceStates[ws].layoutManager.maximized

\* ------------------------------------------------------------------- C40
\* the handler of the one-segment command "layout set bogus", which ends in
\* setWorkspaceLayout's ConfigError for the unknown name
UnknownLayoutFails ==
    /\ CommandHandled
    /\ current.text = << <<"layout", "set", "bogus">> >>
    /\ outcome' = "ConfigError"
\* C40: when setWorkspaceLayout fails with the unknown-layout ConfigError,
\* layoutName and layoutManager of every workspace are as they were before
\* the call.
C40_FailedSetKeepsLayout ==
    [][ UnknownLayoutFails =>
          \A ws \in Workspaces :
             /\ workspaceStates'[ws].layoutName = workspaceStates[ws].layoutName
             /\ workspaceStates'[ws].layoutManager = workspaceStates[ws].layoutManager
      ]_vars
====
